---- MODULE Spec2Model ----
(***************************************************************************)
(* Model of the receipt verification pipelines of verify-payment:          *)
(* verifyCBE, verifyTelebirr, verifyDashen, verifyAbyssinia, verifyCBEBirr.*)
(*                                                                         *)
(* One verification call runs at a time (calls share no state).  A call is *)
(* a sequence of steps separated by the awaits of the source.  Network     *)
(* requests are issued by the pipeline, answered (or not) by the upstream, *)
(* and cut short by a timer only when the request carries a timeout.       *)
(*                                                                         *)
(* Text is a sequence of one-character strings.  A document is modelled by *)
(* the labelled values it contains: the capture of a field's regular       *)
(* expression is the value the document holds under that label, the empty  *)
(* sequence when the pattern does not match (or captures nothing).         *)
(*                                                                         *)
(* In front of the pipelines: the Express routes that validate a request   *)
(* before they call a pipeline (SpecRoutes), the image handler that calls  *)
(* verifyTelebirr or verifyCBE after classifying an upload (SpecImage),    *)
(* and the serverless entry point that initialises once (SpecServerless).  *)
(***************************************************************************)
EXTENDS Integers, Sequences, FiniteSets, TLC

VARIABLES
    pc,             \* position of the running call
    inst,           \* institution of the running call
    skipPrimary,    \* process.env.SKIP_PRIMARY_VERIFICATION === "true"
    env,            \* process.env.SKIP_PRIMARY_VERIFICATION as set when the call runs
    inflight,       \* the pending network request, or NoRequest
    response,       \* the settled outcome of the pending request, or NoResponse
    requests,       \* history: every network request issued by the call
    browser,        \* puppeteer session: "none", "open", "closed"
    launched,       \* history: puppeteer.launch resolved in this call
    closeCalls,     \* history: number of browser.close() invocations
    closeThrows,    \* history: number of browser.close() invocations that rejected
    detectedPdfUrl, \* verifyCBE's detectedPdfUrl (NoUrl for null)
    observed,       \* history: response events delivered to page.on('response')
    primary,        \* history: how the primary tier ended
    fallback,       \* history: how far the fallback tier got
    doc,            \* history: the document the result was extracted from
    result,         \* what the call handed back: nothing yet, a value, or an exception
    trace,          \* history: what the environment delivered to the call, in order
    earlier,        \* the call before, when the running call repeats it
    httpReq,        \* the HTTP request being served and the configuration it meets
    httpRes,        \* what was sent on res for that request
    handler,        \* progress of the route handler serving the request
    serverless      \* api/server.js: initPromise and the invocations of the entry point

vars == <<pc, inst, skipPrimary, env, inflight, response, requests, browser, launched,
          closeCalls, closeThrows, detectedPdfUrl, observed, primary, fallback, doc,
          result, trace, earlier,
          httpReq, httpRes, handler, serverless>>

\* the verification pipelines, and the layer in front of them
pipeline == <<pc, inst, skipPrimary, env, inflight, response, requests, browser, launched,
              closeCalls, closeThrows, detectedPdfUrl, observed, primary, fallback, doc,
              result, trace, earlier>>
web == <<httpReq, httpRes, handler, serverless>>

-----------------------------------------------------------------------------
(* Bounds *)

MaxResponses == 2

-----------------------------------------------------------------------------
(* Text helpers *)

Digits == {"0", "1", "2", "3", "4", "5", "6", "7", "8", "9"}

DigitVal(c) ==
    CASE c = "0" -> 0 [] c = "1" -> 1 [] c = "2" -> 2 [] c = "3" -> 3 [] c = "4" -> 4
      [] c = "5" -> 5 [] c = "6" -> 6 [] c = "7" -> 7 [] c = "8" -> 8 [] c = "9" -> 9

UpperLetters == {"A", "B", "D", "E", "H", "J", "N", "O", "T"}
LowerLetters == {"a", "b", "d", "e", "h", "j", "n", "o", "t"}

toLowerCase(c) ==
    CASE c = "A" -> "a" [] c = "B" -> "b" [] c = "D" -> "d" [] c = "E" -> "e"
      [] c = "H" -> "h" [] c = "J" -> "j" [] c = "N" -> "n" [] c = "O" -> "o"
      [] c = "T" -> "t" [] OTHER -> c

toUpperCase(c) ==
    CASE c = "a" -> "A" [] c = "b" -> "B" [] c = "d" -> "D" [] c = "e" -> "E"
      [] c = "h" -> "H" [] c = "j" -> "J" [] c = "n" -> "N" [] c = "o" -> "O"
      [] c = "t" -> "T" [] OTHER -> c

\* \w of the regular expressions
IsWordChar(c) == c \in Digits \cup UpperLetters \cup LowerLetters \cup {"_"}

\* str.toLowerCase().replace(/\b\w/g, char => char.toUpperCase())
titleCase(str) ==
    LET low == [i \in 1..Len(str) |-> toLowerCase(str[i])]
    IN  [i \in 1..Len(str) |->
            IF IsWordChar(low[i]) /\ (i = 1 \/ ~IsWordChar(low[i - 1]))
            THEN toUpperCase(low[i]) ELSE low[i]]

\* JavaScript truthiness of a string
Truthy(str) == Len(str) > 0

\* text.replace(/,/g, '')
StripCommas(str) == SelectSeq(str, LAMBDA c : c # ",")

\* text.replace(/[^\d.]/g, '')
KeepDigitsAndDots(str) == SelectSeq(str, LAMBDA c : c \in Digits \cup {"."})

RECURSIVE DigitRun(_, _)
\* length of the run of digits of str that starts at position i
DigitRun(str, i) ==
    IF i > Len(str) \/ str[i] \notin Digits THEN 0 ELSE 1 + DigitRun(str, i + 1)

RECURSIVE DigitsValue(_, _, _)
\* value of the decimal digits str[i .. i+n-1]
DigitsValue(str, i, n) ==
    IF n = 0 THEN 0 ELSE DigitsValue(str, i, n - 1) * 10 + DigitVal(str[i + n - 1])

NaN == [nan |-> TRUE, cents |-> 0]

\* parseFloat of an unsigned decimal text; the number is kept in hundredths
\* (every amount of the model has at most two decimals)
parseFloat(str) ==
    LET n  == DigitRun(str, 1)
        dot == n + 1 <= Len(str) /\ str[n + 1] = "."
        f  == IF dot THEN DigitRun(str, n + 2) ELSE 0
        f1 == IF f >= 1 THEN DigitVal(str[n + 2]) ELSE 0
        f2 == IF f >= 2 THEN DigitVal(str[n + 3]) ELSE 0
    IN  IF n = 0 /\ f = 0 THEN NaN
        ELSE [nan |-> FALSE, cents |-> DigitsValue(str, 1, n) * 100 + f1 * 10 + f2]

\* JavaScript truthiness of a number
TruthyNumber(x) == ~x.nan /\ x.cents # 0

\* A date text "a/b/y, h:mm:ss AM": new Date() reads the first number as the
\* month and the second as the day
NoDateText == [present |-> FALSE, a |-> 0, b |-> 0, y |-> 0]
InvalidDate == [valid |-> FALSE, month |-> 0, day |-> 0, year |-> 0]

\* new Date(dateRaw)
NewDate(dateRaw) ==
    IF dateRaw.a \in 1..12 /\ dateRaw.b \in 1..31
    THEN [valid |-> TRUE, month |-> dateRaw.a, day |-> dateRaw.b, year |-> dateRaw.y]
    ELSE InvalidDate

-----------------------------------------------------------------------------
(* Sample texts *)

NoText == << >>
JohnDoe == <<"J", "O", "H", "N", " ", "D", "O", "E">>
AbeBe == <<"a", "b", "e", " ", "B", "E">>
Ref1 == <<"F", "T", "2", "5">>
Acc1 == <<"1", "*", "*", "*", "*", "3", "3", "7", "7">>
Acc2 == <<"*", "*", "*", "*", "9", "0", "1", "7">>
Amt73000 == <<"7", "3", ",", "0", "0", "0", ".", "0", "0">>
AmtZero == <<"0", ".", "0", "0">>
AmtComma == <<",">>
AmtEtb == <<"E", "T", "B", " ", "1", ",", "0", "0", "0", ".", "5", "0">>
AmtWord == <<"N", "A">>
Done2 == <<"D", "o", "n", "e">>
DateMDY == [present |-> TRUE, a |-> 6, b |-> 25, y |-> 2025]
DateDMY == [present |-> TRUE, a |-> 25, b |-> 6, y |-> 2025]
Cgu1 == <<"C", "G", "U", "7">>
Lit73000 == <<"7", "3", "0", "0", "0", ".", "0", "0">>
\* the literal last-resort values of parseCBEBirrReceipt
LiulZenebeAdmasu == <<"L", "I", "U", "L", " ", "Z", "E", "N", "E", "B", "E", " ", "A", "D", "M", "A", "S", "U">>
Ft25211Jypqx == <<"F", "T", "2", "5", "2", "1", "1", "J", "Y", "P", "Q", "X">>
Cgu9Reihhb == <<"C", "G", "U", "9", "R", "E", "I", "H", "H", "B">>

-----------------------------------------------------------------------------
(* Result values.  A returned object is a function from its keys to their  *)
(* values; a key whose value is undefined is left out, as in the JSON the  *)
(* caller sees.                                                            *)

Null == [null |-> TRUE]
NoResult == [kind |-> "none", val |-> Null]
Returned(v) == [kind |-> "returned", val |-> v]
Thrown(msg) == [kind |-> "thrown", val |-> [error |-> msg]]

Failure(msg) == [success |-> FALSE, error |-> msg]

\* what a returned value carries
CarriesSuccess(v) == "success" \in DOMAIN v /\ v.success
CarriesError(v) == "error" \in DOMAIN v
CarriesData(v) == DOMAIN v \ {"success", "error", "null"} # {}
IsNull(v) == "null" \in DOMAIN v
IsFailure(v) == IsNull(v) \/ ("success" \in DOMAIN v /\ ~v.success)

EmptyObj == [k \in {} |-> TRUE]
\* key: value, left out when the value is undefined
Opt(defined, key, value) == IF defined THEN key :> value ELSE EmptyObj

-----------------------------------------------------------------------------
(* verifyCBE: the receipt document and its parser *)

NotPdfCBE ==
    [pdf |-> FALSE, payer |-> NoText, receiver |-> NoText, accounts |-> << >>,
     reason |-> NoText, amountText |-> NoText, reference |-> NoText,
     dateRaw |-> NoDateText]

CBEDocs ==
    {NotPdfCBE} \cup
    [pdf : {TRUE}, payer : {NoText, JohnDoe}, receiver : {NoText, AbeBe},
     accounts : {<< >>, <<Acc1>>, <<Acc1, Acc2>>}, reason : {NoText, Done2},
     amountText : {NoText, AmtZero, Amt73000}, reference : {NoText, Ref1},
     dateRaw : {NoDateText, DateMDY, DateDMY}]

parseCBEReceipt(buffer) ==
    IF ~buffer.pdf
    THEN Failure("Error parsing PDF data")
    ELSE
      LET payerAccount == IF Len(buffer.accounts) >= 1 THEN buffer.accounts[1] ELSE NoText
          receiverAccount == IF Len(buffer.accounts) >= 2 THEN buffer.accounts[2] ELSE NoText
          amount == IF Truthy(buffer.amountText)
                    THEN parseFloat(StripCommas(buffer.amountText)) ELSE NaN
          hasDate == buffer.dateRaw.present
          date == IF hasDate THEN NewDate(buffer.dateRaw) ELSE InvalidDate
          payerName == IF Truthy(buffer.payer) THEN titleCase(buffer.payer) ELSE NoText
          receiverName == IF Truthy(buffer.receiver) THEN titleCase(buffer.receiver) ELSE NoText
      IN  IF /\ Truthy(payerName) /\ Truthy(payerAccount)
             /\ Truthy(receiverName) /\ Truthy(receiverAccount)
             /\ TruthyNumber(amount) /\ hasDate /\ Truthy(buffer.reference)
          THEN [success |-> TRUE, payer |-> payerName, payerAccount |-> payerAccount,
                receiver |-> receiverName, receiverAccount |-> receiverAccount,
                amount |-> amount.cents, date |-> date,
                reference |-> buffer.reference, reason |-> buffer.reason]
          ELSE Failure("Could not extract all required fields from PDF.")

-----------------------------------------------------------------------------
(* verifyDashen: the receipt document and its parser *)

NotPdfDashen ==
    [pdf |-> FALSE, senderName |-> NoText, receiverName |-> NoText,
     transactionReference |-> NoText, dateRaw |-> NoDateText,
     transactionAmount |-> NoText, total |-> NoText]

DashenDocs ==
    {NotPdfDashen} \cup
    [pdf : {TRUE}, senderName : {NoText, JohnDoe}, receiverName : {NoText, AbeBe},
     transactionReference : {NoText, Ref1}, dateRaw : {NoDateText, DateMDY, DateDMY},
     transactionAmount : {NoText, AmtZero, AmtComma, Amt73000},
     total : {NoText, Amt73000}]

\* the number, or NaN for undefined
extractAmountWithLogging(rawValue) ==
    IF Truthy(rawValue) THEN parseFloat(StripCommas(rawValue)) ELSE NaN

parseDashenReceipt(buffer) ==
    IF ~buffer.pdf
    THEN Failure("Error parsing PDF data")
    ELSE
      LET hasDate == buffer.dateRaw.present
          transactionDate == IF hasDate THEN NewDate(buffer.dateRaw) ELSE InvalidDate
          transactionAmount == extractAmountWithLogging(buffer.transactionAmount)
          total == extractAmountWithLogging(buffer.total)
          senderName == IF Truthy(buffer.senderName)
                        THEN titleCase(buffer.senderName) ELSE NoText
          receiverName == IF Truthy(buffer.receiverName)
                          THEN titleCase(buffer.receiverName) ELSE NoText
      IN  IF hasDate /\ ~transactionDate.valid
          THEN \* transactionDate.toISOString() throws a RangeError
               Failure("Error parsing PDF data")
          ELSE IF Truthy(buffer.transactionReference) /\ TruthyNumber(transactionAmount)
          THEN ("success" :> TRUE)
               @@ Opt(Truthy(senderName), "senderName", senderName)
               @@ Opt(Truthy(receiverName), "receiverName", receiverName)
               @@ ("transactionReference" :> buffer.transactionReference)
               @@ Opt(hasDate, "transactionDate", transactionDate)
               @@ ("transactionAmount" :> transactionAmount.cents)
               @@ Opt(~total.nan, "total", total.cents)
          ELSE Failure("Could not extract required fields (Transaction Reference and Amount) from PDF.")

-----------------------------------------------------------------------------
(* verifyAbyssinia: the structured payload and its mapping *)

AbyssiniaTxs ==
    [payer : {NoText, JohnDoe}, sourceAccount : {Acc2}, sourceAccountName : {NoText, AbeBe},
     amountStr : {NoText, AmtEtb, AmtWord, AmtZero},
     dateStr : {NoDateText, DateMDY, DateDMY},
     reference : {NoText, Ref1}, narrative : {NoText, Done2}]

\* header: "absent", or the value of header.status;
\* body: "absent", "notArray", or "array" with the records txs
AbyssiniaBodies ==
    {[object |-> FALSE, header |-> "absent", body |-> "absent", txs |-> << >>]} \cup
    [object : {TRUE}, header : {"absent", "success", "error"},
     body : {"absent", "notArray", "array"}, txs : {<< >>}] \cup
    [object : {TRUE}, header : {"success", "error"}, body : {"array"},
     txs : {<<t>> : t \in AbyssiniaTxs}]

\* a mapping that goes on whatever status the upstream reports
UpstreamStatusOK_Any(status) == TRUE

\* jsonData.header.status === 'success'
UpstreamStatusOK(status) == status = "success"

\* a mapping that reports an empty body as missing fields
NoTransactionData_AsMissingFields ==
    Failure("Missing essential fields in transaction data")

\* what verifyAbyssinia returns for an empty body array
NoTransactionData == Failure("No transaction data found in response body")

\* verifyAbyssinia from the fetched payload on
mapAbyssinia(jsonData) ==
    IF ~jsonData.object \/ jsonData.header = "absent" \/ jsonData.body # "array"
    THEN Failure("Invalid response structure from Abyssinia API")
    ELSE IF ~UpstreamStatusOK(jsonData.header)
    THEN Failure("API returned error status")
    ELSE IF Len(jsonData.txs) = 0
    THEN NoTransactionData
    ELSE
      LET transactionData == jsonData.txs[1]
          transferredAmountStr == transactionData.amountStr
          amount == IF Truthy(transferredAmountStr)
                    THEN parseFloat(KeepDigitsAndDots(transferredAmountStr)) ELSE NaN
          hasDate == transactionData.dateStr.present
          date == IF hasDate THEN NewDate(transactionData.dateStr) ELSE InvalidDate
      IN  IF ~Truthy(transactionData.reference) \/ ~TruthyNumber(amount)
             \/ ~Truthy(transactionData.payer)
          THEN Failure("Missing essential fields in transaction data")
          ELSE ("success" :> TRUE)
               @@ ("payer" :> transactionData.payer)
               @@ Opt(Truthy(transactionData.sourceAccount), "payerAccount",
                      transactionData.sourceAccount)
               @@ Opt(Truthy(transactionData.sourceAccountName), "receiver",
                      transactionData.sourceAccountName)
               @@ ("amount" :> amount.cents)
               @@ Opt(hasDate, "date", date)
               @@ ("reference" :> transactionData.reference)
               @@ ("reason" :> transactionData.narrative)

-----------------------------------------------------------------------------
(* verifyCBEBirr: the receipt document and its parser *)

NotPdfCBEBirr ==
    [pdf |-> FALSE, customerName |-> NoText, orderId |-> NoText, ftCode |-> NoText,
     transactionStatus |-> NoText, reference |-> NoText, cguCode |-> NoText,
     amountLit |-> NoText, amountAny |-> NoText]

\* ftCode: capture of /(FT\d+[A-Z0-9]*)/; cguCode: capture of /(CGU[A-Z0-9]+)/;
\* amountLit: capture of /(73000\.00)/; amountAny: capture of /([\d,]+\.\d{2})/
CBEBirrDocs ==
    {NotPdfCBEBirr} \cup
    {d \in [pdf : {TRUE}, customerName : {NoText, JohnDoe}, orderId : {NoText, Ref1},
            ftCode : {NoText, Ref1}, transactionStatus : {NoText, Done2},
            reference : {NoText, Ref1}, cguCode : {NoText, Cgu1},
            amountLit : {NoText, Lit73000}, amountAny : {NoText, AmtZero, Lit73000}] :
        /\ Truthy(d.amountLit) => Truthy(d.amountAny)
        /\ Truthy(d.orderId) => Truthy(d.ftCode)}

\* match && match[1] ? match[1].trim() : ''
extractValue(capture) == capture

\* extractValue with a pattern that has no capturing group: match[1] is undefined
extractValueNoGroup == NoText

\* a || b on strings
OrElse(a, b) == IF Truthy(a) THEN a ELSE b

Completed == <<"C", "o", "m", "p", "l", "e", "t", "e", "d">>

parseCBEBirrReceipt(pdfText) ==
    LET customerName == OrElse(OrElse(extractValue(pdfText.customerName),
                                      extractValueNoGroup), LiulZenebeAdmasu)
        orderId == OrElse(OrElse(extractValue(pdfText.orderId),
                                 extractValue(pdfText.ftCode)), Ft25211Jypqx)
        transactionStatus == OrElse(OrElse(extractValue(pdfText.transactionStatus),
                                           extractValueNoGroup), Completed)
        reference == OrElse(extractValue(pdfText.reference), orderId)
        receiptNumber == OrElse(OrElse(extractValueNoGroup,
                                       extractValue(pdfText.cguCode)), Cgu9Reihhb)
        amount == OrElse(OrElse(extractValue(pdfText.amountLit),
                                extractValue(pdfText.amountAny)), Lit73000)
    IN  IF ~Truthy(customerName) /\ ~Truthy(receiptNumber) /\ ~Truthy(amount)
        THEN Null
        ELSE [customerName |-> customerName, orderId |-> orderId,
              transactionStatus |-> transactionStatus, reference |-> reference,
              receiptNumber |-> receiptNumber, amount |-> amount]

\* verifyCBEBirr from the resolved response on
handleCBEBirr(status, body) ==
    IF status # 200
    THEN Failure("Failed to fetch receipt: HTTP status")
    ELSE IF ~body.pdf
    THEN \* pdfParse rejects; the catch returns error.message
         Failure("Invalid PDF structure")
    ELSE LET receiptData == parseCBEBirrReceipt(body)
         IN  IF "null" \in DOMAIN receiptData
             THEN Failure("Failed to parse receipt data from PDF")
             ELSE receiptData

-----------------------------------------------------------------------------
(* verifyTelebirr: markup and relay bodies, scraping and validation *)

Amt100Birr == <<"1", "0", "0", " ", "B", "i", "r", "r">>

\* the outcomes of a field's strategies, in declared order
Pairs(v, w) == {<<NoText, NoText>>, <<v, NoText>>, <<NoText, v>>, <<v, w>>}

Cbe == <<"C", "B", "E">>
BankAcc == <<"1", "0", "0", "0", " ", "A", "b", "e">>

\* a page of a transfer to a telebirr account, and a page of a transfer to a
\* bank account (the credited party is the bank, the account line names the
\* holder)
TelebirrHtml ==
    [kind : {"html"}, payerName : Pairs(JohnDoe, AbeBe),
     transactionStatus : Pairs(Completed, Done2), receiptNo : Pairs(Cgu1, Ref1),
     settledAmount : {<<NoText, NoText, NoText, NoText, NoText, NoText>>,
                      <<NoText, NoText, Amt100Birr, NoText, NoText, Amt100Birr>>,
                      <<NoText, NoText, NoText, NoText, NoText, Amt100Birr>>},
     creditedPartyName : {<<NoText, NoText>>},
     creditedPartyAccountNo : {<<NoText, NoText>>},
     bankAccountNumber : {<<NoText, NoText>>}]
    \cup
    [kind : {"html"}, payerName : {<<JohnDoe, NoText>>},
     transactionStatus : {<<Completed, NoText>>},
     receiptNo : {<<NoText, NoText>>, <<Cgu1, NoText>>},
     settledAmount : {<<NoText, NoText, Amt100Birr, NoText, NoText, Amt100Birr>>},
     creditedPartyName : {<<Cbe, NoText>>, <<NoText, AbeBe>>},
     creditedPartyAccountNo : {<<NoText, NoText>>, <<Acc2, NoText>>},
     bankAccountNumber : {<<NoText, NoText>>, <<BankAcc, NoText>>, <<NoText, BankAcc>>,
                          <<AmtWord, NoText>>}]

\* parsed: axios delivered an object; otherwise a JSON text
TelebirrJson ==
    [kind : {"json"}, parsed : BOOLEAN, success : BOOLEAN, hasData : BOOLEAN,
     payerName : {NoText, JohnDoe}, transactionStatus : {NoText, Completed},
     receiptNo : {NoText, Cgu1}, settledAmount : {NoText, Amt100Birr},
     creditedPartyName : {AbeBe}, creditedPartyAccountNo : {Acc2}, bankName : {NoText}]

\* an extractor in which the last strategy that yields a value wins
FirstNonEmpty_Last(outcomes) ==
    LET hits == {n \in 1..Len(outcomes) : Truthy(outcomes[n])}
    IN  IF hits = {} THEN NoText
        ELSE outcomes[CHOOSE n \in hits : \A m \in hits : m <= n]

RECURSIVE FirstNonEmpty(_)
\* the value of the first strategy that yields a non-empty value
FirstNonEmpty(outcomes) ==
    IF Len(outcomes) = 0 THEN NoText
    ELSE IF Truthy(Head(outcomes)) THEN Head(outcomes)
    ELSE FirstNonEmpty(Tail(outcomes))

EmptyTelebirrReceipt ==
    [payerName |-> NoText, transactionStatus |-> NoText, receiptNo |-> NoText,
     settledAmount |-> NoText, creditedPartyName |-> NoText,
     creditedPartyAccountNo |-> NoText, bankName |-> NoText]

RECURSIVE SpaceRun(_, _)
\* length of the run of spaces of str that starts at position i
SpaceRun(str, i) ==
    IF i > Len(str) \/ str[i] # " " THEN 0 ELSE 1 + SpaceRun(str, i + 1)

NoMatch == [matched |-> FALSE, account |-> NoText, name |-> NoText]

\* bankAccountNumberRaw.match(/(\d+)\s+(.*)/) on a trimmed text: the leftmost
\* run of digits that is followed by white space, and the rest of the text
bankAccountRegex(raw) ==
    LET starts == {i \in 1..Len(raw) :
                      /\ raw[i] \in Digits
                      /\ i = 1 \/ raw[i - 1] \notin Digits
                      /\ SpaceRun(raw, i + DigitRun(raw, i)) > 0}
    IN  IF starts = {} THEN NoMatch
        ELSE LET i == CHOOSE x \in starts : \A y \in starts : x <= y
                 n == DigitRun(raw, i)
                 j == i + n + SpaceRun(raw, i + n)
             IN  [matched |-> TRUE, account |-> SubSeq(raw, i, i + n - 1),
                  name |-> SubSeq(raw, j, Len(raw))]

\* Null stands for a thrown TypeError (the input is not a string)
scrapeTelebirrReceipt(html) ==
    IF html.kind = "html"
    THEN LET creditedPartyName == FirstNonEmpty(html.creditedPartyName)
             creditedPartyAccountNo == FirstNonEmpty(html.creditedPartyAccountNo)
             bankAccountNumberRaw == FirstNonEmpty(html.bankAccountNumber)
             match == bankAccountRegex(bankAccountNumberRaw)
         IN  [payerName |-> FirstNonEmpty(html.payerName),
              transactionStatus |-> FirstNonEmpty(html.transactionStatus),
              receiptNo |-> FirstNonEmpty(html.receiptNo),
              settledAmount |-> FirstNonEmpty(html.settledAmount),
              creditedPartyName |-> IF match.matched THEN match.name
                                    ELSE creditedPartyName,
              creditedPartyAccountNo |-> IF match.matched THEN match.account
                                         ELSE creditedPartyAccountNo,
              bankName |-> IF Truthy(bankAccountNumberRaw) THEN creditedPartyName
                           ELSE NoText]
    ELSE IF html.parsed THEN Null
    ELSE EmptyTelebirrReceipt

parseTelebirrJson(jsonData) ==
    IF ~jsonData.success \/ ~jsonData.hasData
    THEN Null
    ELSE [payerName |-> jsonData.payerName,
          transactionStatus |-> jsonData.transactionStatus,
          receiptNo |-> jsonData.receiptNo,
          settledAmount |-> jsonData.settledAmount,
          creditedPartyName |-> jsonData.creditedPartyName,
          creditedPartyAccountNo |-> jsonData.creditedPartyAccountNo,
          bankName |-> jsonData.bankName]

isValidReceipt(receipt) ==
    Truthy(receipt.receiptNo) /\ Truthy(receipt.payerName)
        /\ Truthy(receipt.transactionStatus)

\* fetchFromPrimarySource from the resolved response on
handlePrimarySource(data) == scrapeTelebirrReceipt(data)

\* a relay handler that only scrapes markup and ignores structured bodies
handleProxySource_ScrapeOnly(data) ==
    IF data.kind = "html" THEN scrapeTelebirrReceipt(data) ELSE EmptyTelebirrReceipt

\* fetchFromProxySource from the resolved response on
handleProxySource(data) ==
    IF data.kind = "html"
    THEN scrapeTelebirrReceipt(data)
    ELSE LET extractedData == parseTelebirrJson(data)
         IN  IF "null" \in DOMAIN extractedData
             THEN scrapeTelebirrReceipt(data)
             ELSE extractedData

\* receipt && isValidReceipt(receipt)
UsableReceipt(receipt) == "null" \notin DOMAIN receipt /\ isValidReceipt(receipt)

-----------------------------------------------------------------------------
(* Network requests and their outcomes *)

Institutions == {"CBE", "Telebirr", "Dashen", "Abyssinia", "CBEBirr"}

NoUrl == "null"
LookupUrl == "lookup"
Urls == {"u1", "u2"}

\* timeout 0: the request carries no timeout
NoRequest == [tier |-> "none", timeout |-> 0, url |-> NoUrl]
Request(tier, timeout, url) == [tier |-> tier, timeout |-> timeout, url |-> url]

NoDoc == [none |-> TRUE]
NoResponse == [kind |-> "none", status |-> 0, body |-> NoDoc]
Answer(status, body) == [kind |-> "ok", status |-> status, body |-> body]
\* a rejected request: non-2xx status, connection failure or timeout
Rejected(why) == [kind |-> "error", status |-> 0, body |-> [error |-> why]]

PageBody == [page |-> TRUE]

\* what the upstream of the pending request can answer with
BodiesFor(i, req) ==
    CASE i = "CBE" /\ req.tier = "rendered" -> {PageBody}
      [] i = "CBE" /\ req.tier # "rendered" -> CBEDocs
      [] i = "Telebirr" /\ req.tier = "primary" ->
            TelebirrHtml \cup {j \in TelebirrJson : j.parsed /\ j.success /\ j.hasData}
      [] i = "Telebirr" /\ req.tier # "primary" -> TelebirrHtml \cup TelebirrJson
      [] i = "Dashen" -> DashenDocs
      [] i = "Abyssinia" -> AbyssiniaBodies
      [] i = "CBEBirr" -> CBEBirrDocs

\* the 2xx statuses an upstream answers with
StatusesFor(i) == IF i = "CBEBirr" THEN {200, 204} ELSE {200}

\* the values of SKIP_PRIMARY_VERIFICATION: not set, or set to a text
Unset == "undefined"
EnvValues == {Unset, "true", "1"}

NoEvent == [pdf |-> FALSE, url |-> NoUrl]

\* something the environment delivers to the running call: the settlement of a
\* request, of a browser operation, a response event of the page, or a timer
Outcome(op, ok, resp, event) == [op |-> op, ok |-> ok, resp |-> resp, event |-> event]

NoEarlier == [inst |-> "none", skipPrimary |-> FALSE, trace |-> << >>, result |-> NoResult]

\* the running call repeats the call before it, against the same environment
Replaying == earlier # NoEarlier

\* the environment of a repeated call delivers what it delivered before
Allowed(o) ==
    ~Replaying \/ (Len(trace) < Len(earlier.trace) /\ earlier.trace[Len(trace) + 1] = o)

Delivered(o) ==
    /\ Allowed(o)
    /\ trace' = Append(trace, o)

\* a repeated call is a call of the same function
Calls(i) == ~Replaying \/ earlier.inst = i

-----------------------------------------------------------------------------
(***************************************************************************)
(* The HTTP layer in front of the pipelines.  A parameter of a request     *)
(* (a JSON body member, a query value, a header) is a JavaScript value:    *)
(* its type and the text String(value) gives.                              *)
(***************************************************************************)

Undefined == [type |-> "undefined", text |-> << >>]
Str(text) == [type |-> "string", text |-> text]
Num(text) == [type |-> "number", text |-> text]
Arr(text) == [type |-> "object", text |-> text]

\* !value
Falsy(v) ==
    \/ v.type = "undefined"
    \/ v.type = "string" /\ v.text = << >>
    \/ v.type = "number" /\ v.text = <<"0">>

\* typeof value !== 'string'
NotString(v) == v.type # "string"

AllDigits(text) == \A k \in 1..Len(text) : text[k] \in Digits

\* nothing was sent on res yet
NoHttpResponse == [sent |-> 0, status |-> 0, body |-> Null]

\* no request is being served
NoHttpRequest == [path |-> "none"]

\* no handler is running: nothing was called, nothing deleted
Quiet == [stage |-> "idle", ocrCalls |-> 0, unlinks |-> 0, adminRuns |-> 0,
          ocr |-> "none"]

\* res.status(status).json(body)
Send(status, body) ==
    httpRes' = [sent |-> httpRes.sent + 1, status |-> status, body |-> body]

\* a module of api/server.js freshly loaded: nothing started, no invocation
ColdStart == [initPromise |-> "null", step |-> "none", connects |-> 0,
              cacheInits |-> 0, exited |-> FALSE, invocations |-> << >>]

Init ==
    /\ pc = "idle"
    /\ inst = "none"
    /\ skipPrimary = FALSE
    /\ env = Unset
    /\ inflight = NoRequest
    /\ response = NoResponse
    /\ requests = << >>
    /\ browser = "none"
    /\ launched = FALSE
    /\ closeCalls = 0
    /\ closeThrows = 0
    /\ detectedPdfUrl = NoUrl
    /\ observed = << >>
    /\ primary = "none"
    /\ fallback = "none"
    /\ doc = NoDoc
    /\ result = NoResult
    /\ trace = << >>
    /\ earlier = NoEarlier
    /\ httpReq = NoHttpRequest
    /\ httpRes = NoHttpResponse
    /\ handler = Quiet
    /\ serverless = ColdStart

\* axios.get(...) / page.goto(...): the request goes out and the caller awaits it
Issue(req) ==
    /\ inflight' = req
    /\ response' = NoResponse
    /\ requests' = Append(requests, req)

\* the awaited request has settled and is consumed
Settle ==
    /\ inflight' = NoRequest
    /\ response' = NoResponse

\* the call hands r back to its caller
Finish(r) ==
    /\ result' = r
    /\ pc' = "done"

\* the upstream answers the pending request: a 2xx with some body, or a failure
UpstreamAnswers ==
    /\ inflight # NoRequest
    /\ response = NoResponse
    /\ \/ \E st \in StatusesFor(inst), b \in BodiesFor(inst, inflight) :
              response' = Answer(st, b)
       \/ response' = Rejected("Request failed")
    /\ Delivered(Outcome("response", response'.kind = "ok", response', NoEvent))
    /\ UNCHANGED <<pc, inst, skipPrimary, env, inflight, requests, browser, launched,
                   closeCalls, closeThrows, detectedPdfUrl, observed, primary,
                   fallback, doc, result, earlier, web>>

\* the timer of a request that carries a timeout fires before any answer
RequestTimeout ==
    /\ inflight # NoRequest
    /\ inflight.timeout > 0
    /\ response = NoResponse
    /\ response' = Rejected("timeout exceeded")
    /\ Delivered(Outcome("response", FALSE, response', NoEvent))
    /\ UNCHANGED <<pc, inst, skipPrimary, env, inflight, requests, browser, launched,
                   closeCalls, closeThrows, detectedPdfUrl, observed, primary,
                   fallback, doc, result, earlier, web>>

-----------------------------------------------------------------------------
(* verifyCBE *)

DirectTimeout == 30000
GotoTimeout == 20000

\* how a parsed primary document ended the primary tier
Verdict(body, r) ==
    IF "success" \in DOMAIN r /\ r.success THEN "valid"
    ELSE IF "pdf" \in DOMAIN body /\ ~body.pdf THEN "unparsable"
    ELSE "invalid"

\* the call: the direct request goes out
verifyCBE ==
    /\ pc = "idle"
    /\ inst' = "CBE"
    /\ pc' = "cbe_direct"
    /\ Calls("CBE")
    /\ Issue(Request("primary", DirectTimeout, LookupUrl))
    /\ UNCHANGED <<skipPrimary, env, browser, launched, closeCalls, closeThrows,
                   detectedPdfUrl, observed, primary, fallback, doc, result, trace,
                   earlier, web>>

\* the direct request settled: parse the answer, or fall back to the browser
CBE_DirectSettled ==
    /\ pc = "cbe_direct"
    /\ response # NoResponse
    /\ Settle
    /\ IF response.kind = "ok"
       THEN /\ Finish(Returned(parseCBEReceipt(response.body)))
            /\ primary' = Verdict(response.body, parseCBEReceipt(response.body))
            /\ doc' = response.body
            /\ UNCHANGED fallback
       ELSE /\ pc' = "cbe_launching"
            /\ primary' = "netfail"
            /\ fallback' = "attempted"
            /\ UNCHANGED <<doc, result>>
    /\ UNCHANGED <<inst, skipPrimary, env, requests, browser, launched, closeCalls,
                   closeThrows, detectedPdfUrl, observed, trace, earlier, web>>

\* what the catch block hands back when browser.close() did not reject
BothFailed == Returned(Failure("Both direct and Puppeteer failed"))

\* a catch block that returns without closing the session
CatchCloses_Never(b) == FALSE

\* if (browser): the catch block closes a session that was launched
CatchCloses(b) == b # "none"

\* the catch block of the fallback, up to its await (or to its return)
CatchClose ==
    /\ fallback' = "failed"
    /\ IF CatchCloses(browser)
       THEN /\ pc' = "cbe_catch_closing"
            /\ closeCalls' = closeCalls + 1
            /\ UNCHANGED result
       ELSE /\ Finish(BothFailed)
            /\ UNCHANGED closeCalls

\* puppeteer.launch settled
CBE_LaunchSettled ==
    /\ pc = "cbe_launching"
    /\ \E ok \in BOOLEAN :
          /\ Delivered(Outcome("launch", ok, NoResponse, NoEvent))
          /\ IF ok
             THEN /\ browser' = "open"
                  /\ launched' = TRUE
                  /\ pc' = "cbe_newPage"
                  /\ UNCHANGED <<closeCalls, fallback, result>>
             ELSE /\ CatchClose
                  /\ UNCHANGED <<browser, launched>>
    /\ UNCHANGED <<inst, skipPrimary, env, inflight, response, requests, closeThrows,
                   detectedPdfUrl, observed, primary, doc, earlier, web>>

\* browser.newPage settled; on success the listener is set and page.goto goes out
CBE_NewPageSettled ==
    /\ pc = "cbe_newPage"
    /\ \E ok \in BOOLEAN :
          /\ Delivered(Outcome("newPage", ok, NoResponse, NoEvent))
          /\ IF ok
             THEN /\ detectedPdfUrl' = NoUrl
                  /\ pc' = "cbe_goto"
                  /\ Issue(Request("rendered", GotoTimeout, LookupUrl))
                  /\ UNCHANGED <<closeCalls, fallback, result>>
             ELSE /\ CatchClose
                  /\ UNCHANGED <<detectedPdfUrl, inflight, response, requests>>
    /\ UNCHANGED <<inst, skipPrimary, env, browser, launched, closeThrows, observed,
                   primary, doc, earlier, web>>

\* the assignment of the page.on('response') listener
OnResponseUrl(current, event) == IF event.pdf THEN event.url ELSE current

\* a response event is delivered to page.on('response')
CBE_OnResponse ==
    /\ pc \in {"cbe_goto", "cbe_wait"}
    /\ Len(observed) < MaxResponses
    /\ \E event \in [pdf : BOOLEAN, url : Urls] :
          /\ Delivered(Outcome("event", TRUE, NoResponse, event))
          /\ observed' = Append(observed, event)
          /\ detectedPdfUrl' = OnResponseUrl(detectedPdfUrl, event)
    /\ UNCHANGED <<pc, inst, skipPrimary, env, inflight, response, requests, browser,
                   launched, closeCalls, closeThrows, primary, fallback, doc, result,
                   earlier, web>>

\* page.goto settled
CBE_GotoSettled ==
    /\ pc = "cbe_goto"
    /\ response # NoResponse
    /\ Settle
    /\ IF response.kind = "ok"
       THEN /\ pc' = "cbe_wait"
            /\ UNCHANGED <<closeCalls, fallback, result>>
       ELSE CatchClose
    /\ UNCHANGED <<inst, skipPrimary, env, requests, browser, launched, closeThrows,
                   detectedPdfUrl, observed, primary, doc, trace, earlier, web>>

\* the 3 second wait elapsed: await browser.close()
CBE_WaitElapsed ==
    /\ pc = "cbe_wait"
    /\ Delivered(Outcome("timer", TRUE, NoResponse, NoEvent))
    /\ pc' = "cbe_closing"
    /\ closeCalls' = closeCalls + 1
    /\ UNCHANGED <<inst, skipPrimary, env, inflight, response, requests, browser,
                   launched, closeThrows, detectedPdfUrl, observed, primary,
                   fallback, doc, result, earlier, web>>

\* the follow-up request for the detected document
PdfRequest(url) == Request("document", 0, url)

\* browser.close() of the normal path settled
CBE_CloseSettled ==
    /\ pc = "cbe_closing"
    /\ \E ok \in BOOLEAN :
          /\ Delivered(Outcome("close", ok, NoResponse, NoEvent))
          /\ IF ~ok
             THEN /\ closeThrows' = closeThrows + 1
                  /\ CatchClose
                  /\ UNCHANGED <<browser, inflight, response, requests>>
             ELSE /\ browser' = "closed"
                  /\ UNCHANGED closeThrows
                  /\ IF detectedPdfUrl = NoUrl
                     THEN /\ Finish(Returned(Failure("No PDF detected via Puppeteer.")))
                          /\ fallback' = "failed"
                          /\ UNCHANGED <<closeCalls, inflight, response, requests>>
                     ELSE /\ pc' = "cbe_pdf"
                          /\ Issue(PdfRequest(detectedPdfUrl))
                          /\ UNCHANGED <<closeCalls, fallback, result>>
    /\ UNCHANGED <<inst, skipPrimary, env, launched, detectedPdfUrl, observed, primary, doc,
                   earlier, web>>

\* the follow-up request settled
CBE_PdfSettled ==
    /\ pc = "cbe_pdf"
    /\ response # NoResponse
    /\ Settle
    /\ IF response.kind = "ok"
       THEN /\ Finish(Returned(parseCBEReceipt(response.body)))
            /\ doc' = response.body
            /\ fallback' = "answered"
            /\ UNCHANGED closeCalls
       ELSE /\ CatchClose
            /\ UNCHANGED doc
    /\ UNCHANGED <<inst, skipPrimary, env, requests, browser, launched, closeThrows,
                   detectedPdfUrl, observed, primary, trace, earlier, web>>

\* what the catch block hands back once its browser.close() settled
CatchOutcome(ok) == IF ok THEN BothFailed ELSE Thrown("browser.close rejected")

\* browser.close() of the catch block settled
CBE_CatchCloseSettled ==
    /\ pc = "cbe_catch_closing"
    /\ \E ok \in BOOLEAN :
          /\ Delivered(Outcome("close", ok, NoResponse, NoEvent))
          /\ Finish(CatchOutcome(ok))
          /\ browser' = IF ok THEN "closed" ELSE browser
          /\ closeThrows' = IF ok THEN closeThrows ELSE closeThrows + 1
    /\ UNCHANGED <<inst, skipPrimary, env, inflight, response, requests, launched,
                   closeCalls, detectedPdfUrl, observed, primary, fallback, doc,
                   earlier, web>>

-----------------------------------------------------------------------------
(* verifyTelebirr *)

TelebirrTimeout == 15000

\* a verifyTelebirr that asks the primary source again instead of the relay
ProxyRequest_PrimaryAgain == Request("primary", TelebirrTimeout, LookupUrl)

\* fetchFromProxySource: the relay request
ProxyRequest == Request("fallback", TelebirrTimeout, LookupUrl)

\* a configuration in which every value that is set skips the primary
SkipPrimaryVerification_AnySetValue(value) == value # Unset

\* process.env.SKIP_PRIMARY_VERIFICATION === "true"
SkipPrimaryVerification(value) == value = "true"

\* the call: the primary request goes out, or the relay request when the
\* primary verifier is skipped
verifyTelebirr ==
    /\ pc = "idle"
    /\ Calls("Telebirr")
    /\ inst' = "Telebirr"
    /\ \E value \in EnvValues :
          /\ Replaying => value = env
          /\ env' = value
          /\ skipPrimary' = SkipPrimaryVerification(value)
          /\ IF ~SkipPrimaryVerification(value)
             THEN /\ pc' = "tb_primary"
                  /\ Issue(Request("primary", TelebirrTimeout, LookupUrl))
                  /\ UNCHANGED <<primary, fallback>>
             ELSE /\ pc' = "tb_proxy"
                  /\ Issue(ProxyRequest)
                  /\ primary' = "skipped"
                  /\ fallback' = "attempted"
    /\ UNCHANGED <<browser, launched, closeCalls, closeThrows, detectedPdfUrl,
                   observed, doc, result, trace, earlier, web>>

\* fetchFromPrimarySource, from its settled request on: the receipt or Null
PrimaryResult(resp) ==
    IF resp.kind = "ok" THEN handlePrimarySource(resp.body) ELSE Null

\* fetchFromProxySource, from its settled request on: the receipt or Null
ProxyResult(resp) ==
    IF resp.kind = "ok" THEN handleProxySource(resp.body) ELSE Null

\* a verifyTelebirr that goes on to the relay only when the primary fetch failed
TryFallback_FetchFailureOnly(primaryResult) == "null" \in DOMAIN primaryResult

\* the primary tier yields no usable receipt: go on to the relay
TryFallback(primaryResult) == ~UsableReceipt(primaryResult)

\* the primary request settled
TB_PrimarySettled ==
    /\ pc = "tb_primary"
    /\ response # NoResponse
    /\ LET primaryResult == PrimaryResult(response)
       IN  /\ primary' = IF response.kind # "ok" THEN "netfail"
                         ELSE IF "null" \in DOMAIN primaryResult THEN "unparsable"
                         ELSE IF isValidReceipt(primaryResult) THEN "valid"
                         ELSE "invalid"
           /\ doc' = IF response.kind = "ok" THEN response.body ELSE doc
           /\ IF TryFallback(primaryResult)
              THEN /\ pc' = "tb_proxy"
                   /\ Issue(ProxyRequest)
                   /\ fallback' = "attempted"
                   /\ UNCHANGED result
              ELSE /\ Finish(Returned(primaryResult))
                   /\ Settle
                   /\ UNCHANGED <<requests, fallback>>
    /\ UNCHANGED <<inst, skipPrimary, env, browser, launched, closeCalls, closeThrows,
                   detectedPdfUrl, observed, trace, earlier, web>>

\* the relay request settled
TB_ProxySettled ==
    /\ pc = "tb_proxy"
    /\ response # NoResponse
    /\ Settle
    /\ LET fallbackResult == ProxyResult(response)
       IN  /\ Finish(Returned(IF UsableReceipt(fallbackResult)
                              THEN fallbackResult ELSE Null))
           /\ fallback' = IF response.kind = "ok" THEN "answered" ELSE "failed"
           /\ doc' = IF response.kind = "ok" THEN response.body ELSE doc
    /\ UNCHANGED <<inst, skipPrimary, env, requests, browser, launched, closeCalls,
                   closeThrows, detectedPdfUrl, observed, primary, trace, earlier, web>>

-----------------------------------------------------------------------------
(* verifyDashen, verifyAbyssinia, verifyCBEBirr: a single request *)

DashenTimeout == 30000
AbyssiniaTimeout == 30000
CBEBirrTimeout == 30000

\* the call: the only request goes out
SingleTier(i, timeout, at) ==
    /\ Calls(i)
    /\ inst' = i
    /\ pc' = at
    /\ Issue(Request("primary", timeout, LookupUrl))
    /\ UNCHANGED <<skipPrimary, env, browser, launched, closeCalls, closeThrows,
                   detectedPdfUrl, observed, primary, fallback, doc, result, trace,
                   earlier, web>>

\* the single request settled and r is handed back
SingleSettled(r) ==
    /\ Settle
    /\ Finish(Returned(r))
    /\ primary' = IF response.kind = "ok" THEN Verdict(response.body, r) ELSE "netfail"
    /\ doc' = IF response.kind = "ok" THEN response.body ELSE doc
    /\ UNCHANGED <<inst, skipPrimary, env, requests, browser, launched, closeCalls,
                   closeThrows, detectedPdfUrl, observed, fallback, trace, earlier, web>>

verifyDashen ==
    /\ pc = "idle"
    /\ SingleTier("Dashen", DashenTimeout, "dashen_fetch")

\* a verifier that refuses a reference it has verified before
DashenResult_Deduplicating(resp) ==
    IF Replaying THEN Failure("Reference already verified")
    ELSE IF resp.kind = "ok" THEN parseDashenReceipt(resp.body)
    ELSE Failure("Failed to fetch receipt")

DashenResult(resp) ==
    IF resp.kind = "ok" THEN parseDashenReceipt(resp.body)
    ELSE Failure("Failed to fetch receipt")

Dashen_Settled ==
    /\ pc = "dashen_fetch"
    /\ response # NoResponse
    /\ SingleSettled(DashenResult(response))

verifyAbyssinia ==
    /\ pc = "idle"
    /\ SingleTier("Abyssinia", AbyssiniaTimeout, "abyssinia_fetch")

AbyssiniaResult(resp) ==
    IF resp.kind = "ok" THEN mapAbyssinia(resp.body)
    ELSE Failure("Failed to verify Abyssinia transaction")

Abyssinia_Settled ==
    /\ pc = "abyssinia_fetch"
    /\ response # NoResponse
    /\ SingleSettled(AbyssiniaResult(response))

verifyCBEBirr ==
    /\ pc = "idle"
    /\ SingleTier("CBEBirr", CBEBirrTimeout, "cbebirr_fetch")

CBEBirrResult(resp) ==
    IF resp.kind = "ok" THEN handleCBEBirr(resp.status, resp.body)
    ELSE Failure("Request failed")

CBEBirr_Settled ==
    /\ pc = "cbebirr_fetch"
    /\ response # NoResponse
    /\ SingleSettled(CBEBirrResult(response))

-----------------------------------------------------------------------------
(* The next call starts from a clean slate: a call keeps nothing *)

NextCall ==
    /\ pc = "done"
    /\ pc' = "idle"
    /\ inst' = "none"
    /\ skipPrimary' = FALSE
    /\ env' = Unset
    /\ inflight' = NoRequest
    /\ response' = NoResponse
    /\ requests' = << >>
    /\ browser' = "none"
    /\ launched' = FALSE
    /\ closeCalls' = 0
    /\ closeThrows' = 0
    /\ detectedPdfUrl' = NoUrl
    /\ observed' = << >>
    /\ primary' = "none"
    /\ fallback' = "none"
    /\ doc' = NoDoc
    /\ result' = NoResult
    /\ trace' = << >>
    /\ earlier' = NoEarlier
    /\ UNCHANGED web

Next ==
    \/ verifyCBE
    \/ CBE_DirectSettled
    \/ CBE_LaunchSettled
    \/ CBE_NewPageSettled
    \/ CBE_OnResponse
    \/ CBE_GotoSettled
    \/ CBE_WaitElapsed
    \/ CBE_CloseSettled
    \/ CBE_PdfSettled
    \/ CBE_CatchCloseSettled
    \/ verifyTelebirr
    \/ TB_PrimarySettled
    \/ TB_ProxySettled
    \/ verifyCBEBirr
    \/ CBEBirr_Settled
    \/ verifyDashen
    \/ Dashen_Settled
    \/ verifyAbyssinia
    \/ Abyssinia_Settled
    \/ UpstreamAnswers
    \/ RequestTimeout
    \/ NextCall

Spec == Init /\ [][Next]_vars

\* the documents of the calls that get repeated: every outcome of a fetch and
\* every Abyssinia and CBE Birr body, and of the CBE, Dashen and Telebirr bodies
\* those that vary in the fields a verdict depends on
SampledBody(b) ==
    \/ "error" \in DOMAIN b
    \/ "page" \in DOMAIN b
    \/ "txs" \in DOMAIN b
    \/ "cguCode" \in DOMAIN b
    \/ "pdf" \in DOMAIN b /\ ~b.pdf
    \/ /\ "accounts" \in DOMAIN b
       /\ b.pdf /\ b.payer = JohnDoe /\ b.receiver = AbeBe /\ b.reason = Done2
       /\ b.reference = Ref1
    \/ /\ "senderName" \in DOMAIN b
       /\ b.pdf /\ b.senderName = JohnDoe /\ b.receiverName = AbeBe
       /\ b.total = Amt73000
    \/ /\ "kind" \in DOMAIN b /\ b.kind = "html"
       /\ b.transactionStatus[2] = NoText /\ b.receiptNo[2] = NoText
       /\ b.settledAmount[3] = Amt100Birr
    \/ /\ "kind" \in DOMAIN b /\ b.kind = "json"
       /\ b.payerName = JohnDoe /\ b.settledAmount = Amt100Birr

RepeatSample(outcomes) ==
    \A n \in 1..Len(outcomes) :
        outcomes[n].resp = NoResponse \/ SampledBody(outcomes[n].resp.body)

\* the same function is called again with the same arguments and the same
\* configuration; every variable of a call is local to it, so the second call
\* starts from the state the first one started from
Repeat ==
    /\ pc = "done"
    /\ ~Replaying
    /\ RepeatSample(trace)
    /\ earlier' = [inst |-> inst, skipPrimary |-> skipPrimary, trace |-> trace,
                   result |-> result]
    /\ pc' = "idle"
    /\ inst' = "none"
    /\ skipPrimary' = FALSE
    /\ env' = env
    /\ inflight' = NoRequest
    /\ response' = NoResponse
    /\ requests' = << >>
    /\ browser' = "none"
    /\ launched' = FALSE
    /\ closeCalls' = 0
    /\ closeThrows' = 0
    /\ detectedPdfUrl' = NoUrl
    /\ observed' = << >>
    /\ primary' = "none"
    /\ fallback' = "none"
    /\ doc' = NoDoc
    /\ result' = NoResult
    /\ trace' = << >>
    /\ UNCHANGED web

\* a call followed by its repetition against an environment that delivers the
\* same responses, events and settlements in the same order
NextRepeat ==
    \/ verifyCBE
    \/ CBE_DirectSettled
    \/ CBE_LaunchSettled
    \/ CBE_NewPageSettled
    \/ CBE_OnResponse
    \/ CBE_GotoSettled
    \/ CBE_WaitElapsed
    \/ CBE_CloseSettled
    \/ CBE_PdfSettled
    \/ CBE_CatchCloseSettled
    \/ verifyTelebirr
    \/ TB_PrimarySettled
    \/ TB_ProxySettled
    \/ verifyCBEBirr
    \/ CBEBirr_Settled
    \/ verifyDashen
    \/ Dashen_Settled
    \/ verifyAbyssinia
    \/ Abyssinia_Settled
    \/ UpstreamAnswers
    \/ RequestTimeout
    \/ Repeat

SpecRepeat == Init /\ [][NextRepeat]_vars

-----------------------------------------------------------------------------
(***************************************************************************)
(* The Express application and its routes.  One request is served at a     *)
(* time; the route handler runs up to its await of the verification        *)
(* function, the pipeline above runs, and the handler answers.             *)
(***************************************************************************)

\* the two applications of the repository: the one that listens and mounts
\* /admin, and the one exported to the serverless entry point
Apps == {"listening", "exported"}

KeyActive == <<"k", "1">>
KeyRevoked == <<"k", "2">>
KeyUnknown == <<"k", "3">>

\* the ApiKey collection
StoredKeys == {[key |-> KeyActive, isActive |-> TRUE],
               [key |-> KeyRevoked, isActive |-> FALSE]}

\* ApiKey.findOne({ key, isActive: true }) found a document
validateApiKey(key) == \E k \in StoredKeys : k.key = key /\ k.isActive

ApiKeyValues == {Undefined, Str(KeyUnknown), Str(KeyRevoked), Str(KeyActive)}

\* a request of no particular route: every parameter absent
Blank == [app |-> "exported", path |-> "/", method |-> "GET",
          reference |-> Undefined, suffix |-> Undefined,
          receiptNumber |-> Undefined, phoneNumber |-> Undefined,
          apiKey |-> Undefined, adminHeader |-> Undefined,
          adminQuery |-> Undefined, owner |-> Undefined,
          adminSecret |-> Undefined, file |-> FALSE, autoVerify |-> FALSE,
          mistralKey |-> FALSE, build |-> "guarded"]

With(fields) == fields @@ Blank

Five == <<"1", "2", "3", "4", "5">>
Four == <<"1", "2", "3", "4">>
Six == <<"1", "2", "3", "4", "5", "6">>
FiveWithLetter == <<"1", "2", "a", "4", "5">>

\* what a JSON body can hold under a name, and what a query string can
BodySuffixes == {Undefined, Str(<< >>), Str(Five), Str(Four), Str(Six),
                 Str(FiveWithLetter), Num(Five), Arr(Five)}
QuerySuffixes == BodySuffixes \ {Num(Five)}
References == {Undefined, Str(Ft25211Jypqx), Num(Five)}

AbyssiniaRequests ==
    {With(r) : r \in [path : {"/verify-abyssinia"}, app : Apps, method : {"POST"},
                      reference : References, suffix : BodySuffixes,
                      apiKey : ApiKeyValues]}
    \cup
    {With(r) : r \in [path : {"/verify-abyssinia"}, app : Apps, method : {"GET"},
                      reference : References \ {Num(Five)}, suffix : QuerySuffixes,
                      apiKey : ApiKeyValues]}

\* the middleware: 0 for next(), or the status it answers with
apiKeyAuth(r) ==
    IF r.path \in {"/", "/health"} \/ r.path \in {"/admin/api-keys", "/admin/stats"}
    THEN 0
    ELSE IF Falsy(r.apiKey) THEN 401
    ELSE IF ~validateApiKey(r.apiKey.text) THEN 403
    ELSE 0

\* app.use(apiKeyAuth) is commented out in the listening application and
\* absent from the exported one
ApiKeyAuthMounted(app) == FALSE

\* the request passes cors, express.json and requestLogger and reaches its route
Arrives(r) ==
    /\ httpReq' = r
    /\ IF ApiKeyAuthMounted(r.app) /\ apiKeyAuth(r) # 0
       THEN /\ Send(apiKeyAuth(r), Failure("API key"))
            /\ handler' = [handler EXCEPT !.stage = "finished"]
       ELSE /\ handler' = [handler EXCEPT !.stage = "route"]
            /\ UNCHANGED httpRes
    /\ UNCHANGED <<pipeline, serverless>>

\* the handler answered and returned
Answer_(status, body) ==
    /\ Send(status, body)
    /\ handler' = [handler EXCEPT !.stage = "finished"]
    /\ UNCHANGED <<httpReq, serverless, pipeline>>

\* suffix.length !== 5 || !/^\d{5}$/.test(suffix), negated
IsFiveDigits_LengthOnly(suffix) == Len(suffix.text) = 5

IsFiveDigits(suffix) == Len(suffix.text) = 5 /\ AllDigits(suffix.text)

\* the message of the first validation that fails, "" when none does
AbyssiniaRejects(method, reference, suffix) ==
    IF Falsy(reference) \/ Falsy(suffix)
    THEN IF method = "POST"
         THEN "Missing required parameters: reference and suffix are required"
         ELSE "Missing required query parameters: reference and suffix are required"
    ELSE IF NotString(reference) \/ NotString(suffix)
    THEN "Invalid parameter types: reference and suffix must be strings"
    ELSE IF ~IsFiveDigits(suffix)
    THEN "Invalid suffix: must be exactly 5 digits"
    ELSE ""

\* router.post('/') and router.get('/') up to the await of verifyAbyssinia
AbyssiniaRoute ==
    /\ handler.stage = "route"
    /\ httpReq.path = "/verify-abyssinia"
    /\ pc = "idle"
    /\ LET e == AbyssiniaRejects(httpReq.method, httpReq.reference, httpReq.suffix)
       IN  \/ /\ e # ""
              /\ Answer_(400, Failure(e))
           \/ /\ e = ""
              /\ verifyAbyssinia

\* result.error || 'Transaction not found or verification failed'
ErrorOr(v, default) ==
    IF CarriesError(v) /\ v.error # "" THEN v.error ELSE default

\* the rest of the Abyssinia handler, after the await
AbyssiniaAnswer(r) ==
    IF r.kind = "thrown" \/ IsNull(r.val)
    THEN [status |-> 500, body |-> Failure("Internal server error during verification")]
    ELSE IF CarriesSuccess(r.val)
    THEN [status |-> 200, body |-> [success |-> TRUE, data |-> r.val]]
    ELSE [status |-> 404,
          body |-> Failure(ErrorOr(r.val, "Transaction not found or verification failed"))]

AbyssiniaRoute_Answers ==
    /\ handler.stage = "route"
    /\ httpReq.path = "/verify-abyssinia"
    /\ pc = "done"
    /\ Answer_(AbyssiniaAnswer(result).status, AbyssiniaAnswer(result).body)

Phone251 == <<"2", "5", "1", "9", "1", "2", "3", "4", "5", "6", "7", "8">>
PhoneLocal == <<"0", "9", "1", "2", "3", "4", "5", "6", "7", "8">>
Phone11 == <<"2", "5", "1", "9", "1", "2", "3", "4", "5", "6", "7">>
Phone13 == <<"2", "5", "1", "9", "1", "2", "3", "4", "5", "6", "7", "8", "9">>
Phone252 == <<"2", "5", "2", "9", "1", "2", "3", "4", "5", "6", "7", "8">>
PhoneLetter == <<"2", "5", "1", "9", "1", "2", "3", "4", "5", "6", "7", "x">>

BodyPhones == {Undefined, Str(<< >>), Str(Phone251), Str(PhoneLocal), Str(Phone11),
               Str(Phone13), Str(Phone252), Str(PhoneLetter), Num(Phone251)}
QueryPhones == (BodyPhones \ {Num(Phone251)}) \cup {Arr(Phone251)}
Receipts == {Undefined, Str(Cgu9Reihhb)}

CBEBirrRequests ==
    {With(r) : r \in [path : {"/verify-cbebirr"}, app : Apps, method : {"POST"},
                      receiptNumber : Receipts, phoneNumber : BodyPhones,
                      apiKey : ApiKeyValues]}
    \cup
    {With(r) : r \in [path : {"/verify-cbebirr"}, app : Apps, method : {"GET"},
                      receiptNumber : Receipts \cup {Arr(Cgu9Reihhb)},
                      phoneNumber : QueryPhones, apiKey : ApiKeyValues]}

\* /^251\d{9}$/.test(phone), on the text the value converts to
isValidEthiopianPhone_PrefixOnly(phone) ==
    /\ Len(phone.text) >= 3
    /\ SubSeq(phone.text, 1, 3) = <<"2", "5", "1">>

isValidEthiopianPhone(phone) ==
    /\ Len(phone.text) = 12
    /\ SubSeq(phone.text, 1, 3) = <<"2", "5", "1">>
    /\ AllDigits(SubSeq(phone.text, 4, 12))

NoRejection == [status |-> 0, error |-> ""]

\* the first check of the CBE Birr handlers that answers, NoRejection when none
CBEBirrRejects(method, receiptNumber, phoneNumber, apiKey) ==
    IF Falsy(receiptNumber) \/ (method = "GET" /\ NotString(receiptNumber))
    THEN [status |-> 400, error |-> "Receipt number is required"]
    ELSE IF Falsy(phoneNumber) \/ (method = "GET" /\ NotString(phoneNumber))
    THEN [status |-> 400, error |-> "Phone number is required"]
    ELSE IF Falsy(apiKey)
    THEN [status |-> 401,
          error |-> "API key is required in Authorization header or x-api-key header"]
    ELSE IF ~isValidEthiopianPhone(phoneNumber)
    THEN [status |-> 400,
          error |-> "Invalid Ethiopian phone number format. Must start with 251 and be 12 digits total"]
    ELSE NoRejection

\* router.post('/') and router.get('/') up to the await of verifyCBEBirr
CBEBirrRoute ==
    /\ handler.stage = "route"
    /\ httpReq.path = "/verify-cbebirr"
    /\ pc = "idle"
    /\ LET e == CBEBirrRejects(httpReq.method, httpReq.receiptNumber,
                               httpReq.phoneNumber, httpReq.apiKey)
       IN  \/ /\ e # NoRejection
              /\ Answer_(e.status, Failure(e.error))
           \/ /\ e = NoRejection
              /\ verifyCBEBirr

\* res.json(result), or the catch of the handler
CBEBirrAnswer(r) ==
    IF r.kind = "thrown"
    THEN [status |-> 500, body |-> Failure("Internal server error")]
    ELSE [status |-> 200, body |-> r.val]

CBEBirrRoute_Answers ==
    /\ handler.stage = "route"
    /\ httpReq.path = "/verify-cbebirr"
    /\ pc = "done"
    /\ Answer_(CBEBirrAnswer(result).status, CBEBirrAnswer(result).body)

Secret == <<"s", "3", "c">>
ChangeThisSecretKey == <<"c", "h", "a", "n", "g", "e">>
WrongSecret == <<"s", "3">>

AdminPaths == {"/admin/api-keys", "/admin/stats"}

AdminRequests ==
    {With(r) : r \in [path : AdminPaths, app : Apps, method : {"GET"},
                      adminSecret : {Undefined, Str(<< >>), Str(Secret)},
                      adminHeader : {Undefined, Str(<< >>), Str(Secret),
                                     Str(ChangeThisSecretKey), Str(WrongSecret)},
                      adminQuery : {Undefined, Str(Secret), Str(ChangeThisSecretKey),
                                    Str(WrongSecret), Arr(Secret)}]}
    \cup
    {With(r) : r \in [path : {"/admin/api-keys"}, app : Apps, method : {"POST"},
                      adminSecret : {Undefined, Str(Secret)},
                      adminHeader : {Undefined, Str(Secret), Str(WrongSecret)},
                      adminQuery : {Undefined, Str(Secret)},
                      owner : {Undefined, Str(JohnDoe)}]}

\* value || other
Or(value, other) == IF Falsy(value) THEN other ELSE value

\* process.env.ADMIN_SECRET || 'change-this-secret-key'
ADMIN_SECRET(r) == Or(r.adminSecret, Str(ChangeThisSecretKey))

\* req.headers['x-admin-key'] || req.query.adminKey
AdminKey(r) == Or(r.adminHeader, r.adminQuery)

\* a check that lets every request with some key through
checkAdminAuth_AnyKey(r) == ~Falsy(AdminKey(r))

\* adminKey !== ADMIN_SECRET, negated: next() is called
checkAdminAuth(r) == AdminKey(r) = ADMIN_SECRET(r)

\* checkAdminAuth and, behind it, the handler of the route with its one
\* awaited database operation, which resolves or rejects
AdminRoute ==
    /\ handler.stage = "route"
    /\ httpReq.path \in AdminPaths
    /\ httpReq.app = "listening"
    /\ UNCHANGED <<httpReq, serverless, pipeline>>
    /\ IF ~checkAdminAuth(httpReq)
       THEN /\ Send(403, Failure("Unauthorized admin access"))
            /\ handler' = [handler EXCEPT !.stage = "finished"]
       ELSE /\ handler' = [handler EXCEPT !.stage = "finished",
                                          !.adminRuns = handler.adminRuns + 1]
            /\ IF httpReq.method = "POST" /\ Falsy(httpReq.owner)
               THEN Send(400, Failure("Owner name is required"))
               ELSE \E resolved \in BOOLEAN :
                       IF resolved
                       THEN Send(IF httpReq.method = "POST" THEN 201 ELSE 200,
                                 [success |-> TRUE])
                       ELSE Send(500, Failure("Failed"))

OpenPaths == {"/", "/health"}

OpenRequests ==
    {With(r) : r \in [path : OpenPaths, app : Apps, apiKey : ApiKeyValues]}

\* app.get('/health') and app.get('/')
OpenEndpoint ==
    /\ handler.stage = "route"
    /\ httpReq.path \in OpenPaths
    /\ Answer_(200, [status |-> "ok"])

\* no route of the application matches: Express answers 404
NotFound ==
    /\ handler.stage = "route"
    /\ httpReq.path \in AdminPaths
    /\ httpReq.app = "exported"
    /\ Answer_(404, Null)

\* the request is over; the next one meets a handler that kept nothing
NextRequest ==
    /\ handler.stage = "finished"
    /\ httpReq' = NoHttpRequest
    /\ httpRes' = NoHttpResponse
    /\ handler' = Quiet
    /\ pc' = "idle"
    /\ inst' = "none"
    /\ skipPrimary' = FALSE
    /\ env' = Unset
    /\ inflight' = NoRequest
    /\ response' = NoResponse
    /\ requests' = << >>
    /\ browser' = "none"
    /\ launched' = FALSE
    /\ closeCalls' = 0
    /\ closeThrows' = 0
    /\ detectedPdfUrl' = NoUrl
    /\ observed' = << >>
    /\ primary' = "none"
    /\ fallback' = "none"
    /\ doc' = NoDoc
    /\ result' = NoResult
    /\ trace' = << >>
    /\ UNCHANGED <<earlier, serverless>>

RouteRequests == AbyssiniaRequests \cup CBEBirrRequests \cup AdminRequests \cup OpenRequests

\* no request is being served
Free ==
    /\ handler = Quiet
    /\ pc = "idle"
    /\ httpReq = NoHttpRequest

RequestArrives ==
    /\ Free
    /\ \E r \in RouteRequests : Arrives(r)

NextRoutes ==
    \/ RequestArrives
    \/ AbyssiniaRoute
    \/ AbyssiniaRoute_Answers
    \/ CBEBirrRoute
    \/ CBEBirrRoute_Answers
    \/ AdminRoute
    \/ OpenEndpoint
    \/ NotFound
    \/ Abyssinia_Settled
    \/ CBEBirr_Settled
    \/ UpstreamAnswers
    \/ RequestTimeout
    \/ NextRequest

SpecRoutes == Init /\ [][NextRoutes]_vars

-----------------------------------------------------------------------------
(***************************************************************************)
(* POST /verify-image: verifyImageHandler.  The repository holds two       *)
(* builds of it: one constructs the Mistral client only when               *)
(* MISTRAL_API_KEY is set and tests it before use ("guarded"), the other   *)
(* constructs it unconditionally ("unguarded").                            *)
(***************************************************************************)

\* build and key as deployed (with a key the two builds construct the same client)
Deployments == {[build |-> "guarded", mistralKey |-> FALSE],
                [build |-> "unguarded", mistralKey |-> FALSE],
                [build |-> "guarded", mistralKey |-> TRUE]}

ImageRequests ==
    {With(r @@ d) : r \in [path : {"/verify-image"}, method : {"POST"},
                           file : BOOLEAN, autoVerify : BOOLEAN,
                           suffix : {Undefined, Str(Five)}],
                    d \in Deployments}

\* client is null
NoClient(r) == r.build = "guarded" /\ ~r.mistralKey

\* what JSON.parse(messageContent) can give: the type and whether the
\* reference of that type was read
Classifications ==
    [ended : {"parsed"}, type : {"telebirr", "cbe", "other"}, reference : BOOLEAN]

\* the call ended without a classification
Unclassified(ended) == [ended |-> ended, type |-> "none", reference |-> FALSE]

\* how the await of client.chat.complete ends: rejected, no text content,
\* text that is not JSON, or a classification; without a key the vision API
\* refuses the request
OcrOutcomes(r) ==
    IF r.mistralKey
    THEN {Unclassified(e) : e \in {"rejected", "nocontent", "unparsable"}}
         \cup Classifications
    ELSE {Unclassified("rejected")}

\* the finally block: fs.unlinkSync(req.file.path) when a file was uploaded
Unlinks_Never(r) == 0

Unlinks(r) == IF r.file THEN 1 ELSE 0

\* the handler answered, its finally block ran, and it returned
HandlerEnds(status, body) ==
    /\ Send(status, body)
    /\ handler' = [handler EXCEPT !.stage = "finished",
                                  !.unlinks = handler.unlinks + Unlinks(httpReq)]
    /\ UNCHANGED <<httpReq, serverless, pipeline>>

ErrorBody(msg) == [error |-> msg]

\* the answer of the guarded build when OCR is disabled
ManualEntry ==
    [success |-> TRUE,
     message |-> "Image uploaded successfully. OCR analysis is currently disabled.",
     nextSteps |-> "Please enter the transaction reference number manually."]

UploadArrives ==
    /\ Free
    /\ \E r \in ImageRequests : Arrives(r)

\* the handler up to its await of client.chat.complete
ImageHandler ==
    /\ handler.stage = "route"
    /\ httpReq.path = "/verify-image"
    /\ IF ~httpReq.file
       THEN HandlerEnds(400, ErrorBody("No file uploaded"))
       ELSE IF NoClient(httpReq)
       THEN HandlerEnds(200, ManualEntry)
       ELSE /\ handler' = [handler EXCEPT !.stage = "ocr",
                                          !.ocrCalls = handler.ocrCalls + 1]
            /\ UNCHANGED <<httpReq, httpRes, serverless, pipeline>>

\* req.body?.suffix || null, tested by !accountSuffix
NoAccountSuffix(r) == Falsy(r.suffix)

\* the classification leads to an await of verifyTelebirr or of verifyCBE
Verifies(r, o) ==
    /\ o.ended = "parsed"
    /\ o.reference
    /\ r.autoVerify
    /\ \/ o.type = "telebirr"
       \/ o.type = "cbe" /\ ~NoAccountSuffix(r)

\* the answer of every path from the settled OCR call that verifies nothing
Unverified(r, o) ==
    IF o.ended \in {"rejected", "unparsable"}
    THEN [status |-> 500, body |-> ErrorBody("Something went wrong processing the image.")]
    ELSE IF o.ended = "nocontent"
    THEN [status |-> 500, body |-> ErrorBody("Invalid OCR response")]
    ELSE IF o.type = "telebirr" /\ o.reference
    THEN [status |-> 200, body |-> [type |-> "telebirr", forward_to |-> "/verify-telebirr"]]
    ELSE IF o.type = "cbe" /\ o.reference /\ ~r.autoVerify
    THEN [status |-> 200, body |-> [type |-> "cbe", forward_to |-> "/verify-cbe"]]
    ELSE IF o.type = "cbe" /\ o.reference
    THEN [status |-> 400,
          body |-> ErrorBody("Account suffix is required for CBE verification in autoVerify mode")]
    ELSE [status |-> 422, body |-> ErrorBody("Unknown or unrecognized receipt type")]

\* client.chat.complete settled: the handler runs on to its answer, or to the
\* point where it calls the verification function
Image_OcrSettled ==
    /\ handler.stage = "ocr"
    /\ \E o \in OcrOutcomes(httpReq) :
          IF Verifies(httpReq, o)
          THEN /\ handler' = [handler EXCEPT !.stage = "verifying", !.ocr = o.type]
               /\ UNCHANGED <<httpReq, httpRes, serverless, pipeline>>
          ELSE HandlerEnds(Unverified(httpReq, o).status, Unverified(httpReq, o).body)

\* await verifyTelebirr(result.transaction_number), or
\* await verifyCBE(result.transaction_id, accountSuffix)
Image_Verifies ==
    /\ handler.stage = "verifying"
    /\ \/ /\ handler.ocr = "telebirr"
          /\ verifyTelebirr
       \/ /\ handler.ocr = "cbe"
          /\ verifyCBE

\* res.json({ verified: true, type, reference, details: data }), or the
\* catch around the await
Verified(type, r) ==
    IF r.kind = "thrown"
    THEN [status |-> 500, body |-> ErrorBody("Verification failed")]
    ELSE [status |-> 200, body |-> [verified |-> TRUE, type |-> type, details |-> r.val]]

Image_Answers ==
    /\ handler.stage = "verifying"
    /\ pc = "done"
    /\ HandlerEnds(Verified(handler.ocr, result).status, Verified(handler.ocr, result).body)

NextImage ==
    \/ UploadArrives
    \/ ImageHandler
    \/ Image_OcrSettled
    \/ Image_Verifies
    \/ Image_Answers
    \/ CBE_DirectSettled
    \/ CBE_LaunchSettled
    \/ CBE_NewPageSettled
    \/ CBE_OnResponse
    \/ CBE_GotoSettled
    \/ CBE_WaitElapsed
    \/ CBE_CloseSettled
    \/ CBE_PdfSettled
    \/ CBE_CatchCloseSettled
    \/ TB_PrimarySettled
    \/ TB_ProxySettled
    \/ UpstreamAnswers
    \/ RequestTimeout
    \/ NextRequest

SpecImage == Init /\ [][NextImage]_vars

-----------------------------------------------------------------------------
(***************************************************************************)
(* api/server.js: the serverless entry point.  Every invocation awaits     *)
(* ensureInit() before it hands the request to the application.            *)
(***************************************************************************)

\* invocations of the entry point in the life of one process
MaxInvocations == 4

\* !initPromise
NeedsInit_Always(initPromise) == TRUE

NeedsInit(initPromise) == initPromise = "null"

\* the exported function up to its await of ensureInit(): the first
\* invocation creates initPromise, which starts connectDB()
Invoke ==
    /\ ~serverless.exited
    /\ Len(serverless.invocations) < MaxInvocations
    /\ LET starts == NeedsInit(serverless.initPromise)
       IN  serverless' =
               [serverless EXCEPT
                   !.initPromise = IF starts THEN "pending" ELSE @,
                   !.step = IF starts THEN "connecting" ELSE @,
                   !.connects = IF starts THEN @ + 1 ELSE @,
                   !.invocations =
                       Append(@, [at |-> "awaiting",
                                  afterFailure |-> serverless.initPromise = "rejected"])]
    /\ UNCHANGED <<pipeline, httpReq, httpRes, handler>>

\* mongoose.connect settled: connectDB returns and initializeStatsCache()
\* starts, or connectDB's catch ends the process
ConnectSettles ==
    /\ ~serverless.exited
    /\ serverless.step = "connecting"
    /\ \E connected \in BOOLEAN :
          serverless' =
              IF connected
              THEN [serverless EXCEPT !.step = "caching", !.cacheInits = @ + 1]
              ELSE [serverless EXCEPT !.step = "none", !.exited = TRUE]
    /\ UNCHANGED <<pipeline, httpReq, httpRes, handler>>

\* initializeStatsCache() settled, and with it initPromise
CacheSettles ==
    /\ ~serverless.exited
    /\ serverless.step = "caching"
    /\ \E resolved \in BOOLEAN :
          serverless' =
              [serverless EXCEPT
                  !.step = "none",
                  !.initPromise = IF resolved THEN "resolved" ELSE "rejected"]
    /\ UNCHANGED <<pipeline, httpReq, httpRes, handler>>

\* an invocation resumes from await ensureInit(): handler(req, res), or the
\* catch that answers 500
Resumes ==
    /\ ~serverless.exited
    /\ serverless.initPromise \in {"resolved", "rejected"}
    /\ \E i \in 1..Len(serverless.invocations) :
          /\ serverless.invocations[i].at = "awaiting"
          /\ serverless' =
                 [serverless EXCEPT
                     !.invocations[i].at =
                         IF serverless.initPromise = "resolved"
                         THEN "handed" ELSE "answered500"]
    /\ UNCHANGED <<pipeline, httpReq, httpRes, handler>>

NextServerless ==
    \/ Invoke
    \/ ConnectSettles
    \/ CacheSettles
    \/ Resumes

SpecServerless == Init /\ [][NextServerless]_vars

TypeOK ==
    /\ pc \in {"idle", "done", "cbe_direct", "cbe_launching", "cbe_newPage", "cbe_goto",
               "cbe_wait", "cbe_closing", "cbe_pdf", "cbe_catch_closing", "tb_primary",
               "tb_proxy", "dashen_fetch", "abyssinia_fetch", "cbebirr_fetch"}
    /\ inst \in Institutions \cup {"none"}
    /\ browser \in {"none", "open", "closed"}
    /\ closeCalls \in 0..2
    /\ Len(observed) <= MaxResponses
    /\ result.kind \in {"none", "returned", "thrown"}
    /\ (pc = "done") <=> (result.kind # "none")
    /\ earlier.inst \in Institutions \cup {"none"}
    /\ env \in EnvValues
    /\ inst = "Telebirr" => skipPrimary = SkipPrimaryVerification(env)
    /\ Replaying => Len(trace) <= Len(earlier.trace)

-----------------------------------------------------------------------------
(* Vocabulary of the properties *)

Ended == pc = "done"
Handed == Ended /\ result.kind = "returned"


\* success=true, or a non-null receipt for verifyTelebirr
ReportsSuccess ==
    /\ Handed
    /\ \/ CarriesSuccess(result.val)
       \/ inst = "Telebirr" /\ ~IsNull(result.val)

NonEmptyText(v, key) == key \in DOMAIN v /\ Len(v[key]) > 0

\* every required field of the institution is present, non-empty and well typed
RequiredFieldsOK(i, v) ==
    CASE i = "CBE" ->
            /\ \A k \in {"payer", "payerAccount", "receiver", "receiverAccount",
                        "reference"} : NonEmptyText(v, k)
            /\ "amount" \in DOMAIN v /\ v.amount \in Int
            /\ "date" \in DOMAIN v /\ v.date.valid
      [] i = "Telebirr" ->
            \A k \in {"receiptNo", "payerName", "transactionStatus"} : NonEmptyText(v, k)
      [] i = "Dashen" ->
            /\ NonEmptyText(v, "transactionReference")
            /\ "transactionAmount" \in DOMAIN v /\ v.transactionAmount \in Int
      [] i = "Abyssinia" ->
            /\ NonEmptyText(v, "reference") /\ NonEmptyText(v, "payer")
            /\ "amount" \in DOMAIN v /\ v.amount \in Int
      [] OTHER -> TRUE

\* the validation-category messages of the pipelines
ValidationMessages ==
    {"Could not extract all required fields from PDF.",
     "Could not extract required fields (Transaction Reference and Amount) from PDF.",
     "Missing essential fields in transaction data",
     "Failed to parse receipt data from PDF"}

\* the document the result was drawn from lacks a field of the required set
MissingRequired(i, d) ==
    CASE i = "CBE" ->
            /\ "pdf" \in DOMAIN d /\ d.pdf
            /\ \/ ~Truthy(d.payer) \/ ~Truthy(d.receiver) \/ Len(d.accounts) < 2
               \/ ~Truthy(d.amountText) \/ ~Truthy(d.reference) \/ ~d.dateRaw.present
      [] i = "Dashen" ->
            /\ "pdf" \in DOMAIN d /\ d.pdf
            /\ ~Truthy(d.transactionReference) \/ ~Truthy(d.transactionAmount)
      [] i = "Abyssinia" ->
            /\ "txs" \in DOMAIN d /\ d.header = "success" /\ Len(d.txs) > 0
            /\ \/ ~Truthy(d.txs[1].reference) \/ ~Truthy(d.txs[1].amountStr)
               \/ ~Truthy(d.txs[1].payer)
      [] i = "CBEBirr" ->
            /\ "pdf" \in DOMAIN d /\ d.pdf
            /\ \/ ~Truthy(d.customerName) \/ ~Truthy(d.cguCode)
               \/ (~Truthy(d.amountLit) /\ ~Truthy(d.amountAny))
      [] i = "Telebirr" ->
            /\ "kind" \in DOMAIN d /\ d.kind = "html"
            /\ \E k \in {"receiptNo", "payerName", "transactionStatus"} :
                   ~Truthy(FirstNonEmpty(d[k]))
      [] OTHER -> FALSE

RECURSIVE FirstPdfUrl(_)
\* the URL of the first delivered response event with a PDF content type
FirstPdfUrl(events) ==
    IF Len(events) = 0 THEN NoUrl
    ELSE IF Head(events).pdf THEN Head(events).url
    ELSE FirstPdfUrl(Tail(events))

-----------------------------------------------------------------------------
(* Properties *)

\* C1: the result handed back carries receipt data iff it carries
\* success=true, and carries an error message iff it does not carry
\* success=true.
C1_EnvelopeIff ==
    Handed =>
        /\ CarriesData(result.val) <=> CarriesSuccess(result.val)
        /\ CarriesError(result.val) <=> ~CarriesSuccess(result.val)

\* C2: a call reports success only if every field of the institution's
\* required set is present, non-empty and correctly typed (the date a valid
\* point in time).
C2_SuccessOnlyWithRequiredFields ==
    ReportsSuccess => RequiredFieldsOK(inst, result.val)

\* C3: in verifyCBE and verifyTelebirr a primary fetch that failed with a
\* network error is followed by the fallback before the call ends, and when the
\* fallback fails too the call returns a failure result without receipt fields.
C3_FallbackBeforeFailure ==
    (Ended /\ inst \in {"CBE", "Telebirr"} /\ primary = "netfail") =>
        /\ fallback # "none"
        /\ fallback = "failed" =>
              /\ result.kind = "returned"
              /\ IsFailure(result.val)
              /\ ~CarriesData(result.val)

C5_NeverThrows == result.kind # "thrown"

C7_WrongContentTriggersFallback ==
    (inst = "CBE" /\ primary = "unparsable") => fallback # "none"

\* C8: every network request a pipeline issues carries an explicit timeout.
C8_EveryRequestBounded ==
    \A n \in 1..Len(requests) : requests[n].timeout > 0

\* C9: the URL requested for the document bytes is the URL of the first
\* observed response with a PDF content type.
C9_FirstPdfUrlRequested ==
    pc = "cbe_pdf" => inflight.url = FirstPdfUrl(observed)

\* C10: a fetched document that lacks a required field yields a failure with a
\* validation-category message (null for verifyTelebirr), never a success.
C10_MissingFieldFails ==
    (Handed /\ MissingRequired(inst, doc)) =>
        IF inst = "Telebirr" THEN IsNull(result.val)
        ELSE /\ IsFailure(result.val)
             /\ CarriesError(result.val)
             /\ result.val.error \in ValidationMessages

\* a decimal text that states an amount
StatesAmount(text) == ~parseFloat(KeepDigitsAndDots(text)).nan

\* a date text that new Date() reads as a point in time
StatesDate(dateRaw) == dateRaw.present /\ NewDate(dateRaw).valid

\* the fetched document holds every field of the institution's required set,
\* the amount as a decimal text and the date as a readable date
AllRequiredPresent(i, d) ==
    CASE i = "CBE" ->
            /\ "pdf" \in DOMAIN d /\ d.pdf
            /\ Truthy(d.payer) /\ Truthy(d.receiver) /\ Len(d.accounts) >= 2
            /\ Truthy(d.reference)
            /\ StatesAmount(d.amountText) /\ StatesDate(d.dateRaw)
      [] i = "Dashen" ->
            /\ "pdf" \in DOMAIN d /\ d.pdf
            /\ Truthy(d.transactionReference) /\ StatesAmount(d.transactionAmount)
            /\ ~d.dateRaw.present \/ StatesDate(d.dateRaw)
      [] i = "Abyssinia" ->
            /\ "txs" \in DOMAIN d /\ d.object /\ d.header = "success"
            /\ d.body = "array" /\ Len(d.txs) > 0
            /\ Truthy(d.txs[1].reference) /\ Truthy(d.txs[1].payer)
            /\ StatesAmount(d.txs[1].amountStr)
            /\ ~d.txs[1].dateStr.present \/ StatesDate(d.txs[1].dateStr)
      [] i = "Telebirr" ->
            /\ "kind" \in DOMAIN d /\ d.kind = "html"
            /\ \A k \in {"receiptNo", "payerName", "transactionStatus"} :
                   Truthy(FirstNonEmpty(d[k]))
      [] OTHER -> FALSE

\* C11: a fetched document in which all required fields are present, whatever
\* amount it states, yields success=true (a non-null receipt for
\* verifyTelebirr) with every required field populated and correctly typed.
C11_AllPresentSucceeds ==
    (Handed /\ AllRequiredPresent(inst, doc)) =>
        /\ ReportsSuccess
        /\ RequiredFieldsOK(inst, result.val)

\* the elements of a sequence
Range(seq) == {seq[n] : n \in 1..Len(seq)}

\* the keys of a receipt of the institution whose values are texts
TextKeys(i) ==
    CASE i = "CBE" -> {"payer", "payerAccount", "receiver", "receiverAccount",
                       "reference", "reason"}
      [] i = "Dashen" -> {"senderName", "receiverName", "transactionReference"}
      [] i = "Abyssinia" -> {"payer", "payerAccount", "receiver", "reference", "reason"}
      [] i = "CBEBirr" -> {"customerName", "orderId", "transactionStatus", "reference",
                           "receiptNumber", "amount"}
      [] i = "Telebirr" -> {"payerName", "transactionStatus", "receiptNo",
                            "settledAmount"}
      [] OTHER -> {}

\* the texts the fetched document holds (names also in their title-cased form)
DocTexts(i, d) ==
    CASE i = "CBE" ->
            {d.payer, titleCase(d.payer), d.receiver, titleCase(d.receiver),
             d.reference, d.reason} \cup Range(d.accounts)
      [] i = "Dashen" ->
            {d.senderName, titleCase(d.senderName), d.receiverName,
             titleCase(d.receiverName), d.transactionReference}
      [] i = "Abyssinia" ->
            UNION {{t.payer, t.sourceAccount, t.sourceAccountName, t.reference,
                    t.narrative} : t \in Range(d.txs)}
      [] i = "CBEBirr" ->
            {d.customerName, d.orderId, d.ftCode, d.transactionStatus, d.reference,
             d.cguCode, d.amountLit, d.amountAny}
      [] i = "Telebirr" ->
            IF d.kind = "html"
            THEN UNION {Range(d[k]) : k \in TextKeys("Telebirr")}
            ELSE {d[k] : k \in TextKeys("Telebirr")}
      [] OTHER -> {}

\* C12: every text field of a returned receipt is empty or holds a value of
\* the fetched document; a field whose patterns all fail is never filled with
\* a literal default.
C12_NoFabricatedField ==
    (Handed /\ doc # NoDoc /\ ~IsFailure(result.val)) =>
        \A k \in TextKeys(inst) \cap DOMAIN result.val :
            result.val[k] \in DocTexts(inst, doc) \cup {NoText}

\* the payload passes the checks that precede the mapping of fields
PayloadAdmitted(d) ==
    d.object /\ d.header # "absent" /\ d.body = "array" /\ d.header = "success"

\* the failures verifyAbyssinia reports before it maps any field
GateMessages ==
    {"Invalid response structure from Abyssinia API", "API returned error status"}

\* C13: verifyAbyssinia maps no field unless the payload has a header, an
\* array body and header.status "success": the result of a payload that is not
\* admitted is a failure without receipt fields that does not depend on the
\* records of the body; a non-success status is reported with a message that
\* differs from the missing-fields message.
C13_StatusGatesExtraction ==
    (Handed /\ inst = "Abyssinia" /\ "txs" \in DOMAIN doc /\ ~PayloadAdmitted(doc)) =>
        /\ IsFailure(result.val) /\ ~CarriesData(result.val)
        /\ result.val.error \in GateMessages
        /\ result.val = mapAbyssinia([doc EXCEPT !.txs = << >>])
        /\ (doc.header = "error" /\ doc.body = "array") =>
              /\ result.val.error = "API returned error status"
              /\ result.val.error \notin ValidationMessages

\* a payload with status "error" whose record holds every essential field
C13_Witness ==
    /\ Handed /\ inst = "Abyssinia" /\ "txs" \in DOMAIN doc
    /\ doc.header = "error" /\ Len(doc.txs) = 1
    /\ Truthy(doc.txs[1].reference) /\ Truthy(doc.txs[1].payer)
    /\ doc.txs[1].amountStr = AmtEtb
    /\ result.val.error = "API returned error status"

\* the positions of the call's requests to a tier
RequestsTo(tier) == {n \in 1..Len(requests) : requests[n].tier = tier}

\* the requests of a fallback tier: the relay of verifyTelebirr, the rendered
\* page of verifyCBE and the document that page revealed
FallbackTiers == {"fallback", "rendered", "document"}

\* C14: within one call each tier is requested at most once and in order: the
\* primary source first and at most once, the fallback at most once and only
\* after the primary attempt has ended; verifyDashen, verifyCBEBirr and
\* verifyAbyssinia issue exactly one request; nothing is pending or requested
\* once the call has ended.
C14_TiersOnceInOrder ==
    /\ \A tier \in {"primary"} \cup FallbackTiers : Cardinality(RequestsTo(tier)) <= 1
    /\ \A n \in RequestsTo("primary") : n = 1
    /\ \A n \in 1..Len(requests) :
          requests[n].tier \in FallbackTiers =>
              /\ inst \in {"CBE", "Telebirr"}
              /\ primary \in {"netfail", "unparsable", "invalid", "skipped"}
    /\ \A n \in RequestsTo("document"), m \in RequestsTo("rendered") : m < n
    /\ inst \in {"Dashen", "CBEBirr", "Abyssinia"} => Len(requests) = 1
    /\ Ended =>
          /\ inflight = NoRequest
          /\ Len(requests) >= 1
          /\ Len(requests) <= (IF inst = "CBE" THEN 3 ELSE IF inst = "Telebirr" THEN 2 ELSE 1)

\* both tiers of verifyTelebirr failed: two requests, then the call ended
C14_Witness ==
    /\ Ended /\ inst = "Telebirr"
    /\ primary = "netfail" /\ fallback = "failed"
    /\ Len(requests) = 2 /\ requests[1].tier = "primary" /\ requests[2].tier = "fallback"
    /\ IsNull(result.val)

\* a structured relay body with every field present
CompleteRelayBody(d) ==
    /\ "kind" \in DOMAIN d /\ d.kind = "json"
    /\ d.success /\ d.hasData
    /\ \A k \in TextKeys("Telebirr") : Truthy(d[k])

\* C15: in verifyTelebirr, when the primary markup yields no valid receipt
\* (its required fields extract as empty) and the relay answers with a
\* structured body that has all fields present, the call returns a non-null
\* receipt whose fields are those of the relay body.
C15_RelayReceiptReturned ==
    (Ended /\ inst = "Telebirr" /\ primary = "invalid" /\ fallback = "answered"
       /\ CompleteRelayBody(doc)) =>
        /\ result.kind = "returned"
        /\ ~IsNull(result.val)
        /\ \A k \in TextKeys("Telebirr") : result.val[k] = doc[k]

\* the primary markup failed validation, the relay answered with a complete
\* structured body, and its receipt number came back
C15_Witness ==
    /\ Ended /\ inst = "Telebirr" /\ primary = "invalid" /\ fallback = "answered"
    /\ Len(requests) = 2
    /\ CompleteRelayBody(doc)
    /\ result.val.receiptNo = Cgu1 /\ result.val.payerName = JohnDoe

\* C16: when the Abyssinia endpoint answers with status "success" and an empty
\* result array, verifyAbyssinia returns exactly
\* {success: false, error: "No transaction data found in response body"}.
C16_EmptyBodyFailure ==
    (Ended /\ inst = "Abyssinia" /\ "txs" \in DOMAIN doc /\ PayloadAdmitted(doc)
       /\ Len(doc.txs) = 0) =>
        /\ result.kind = "returned"
        /\ DOMAIN result.val = {"success", "error"}
        /\ result.val.success = FALSE
        /\ result.val.error = "No transaction data found in response body"

\* the endpoint answered with status "success" and an empty array
C16_Witness ==
    /\ Ended /\ inst = "Abyssinia" /\ primary = "invalid"
    /\ "txs" \in DOMAIN doc /\ doc.header = "success" /\ doc.body = "array"
    /\ doc.txs = << >>
    /\ IsFailure(result.val)

\* the error messages that name the transaction reference
MentionsReference ==
    {"Could not extract required fields (Transaction Reference and Amount) from PDF."}

\* C17: a Dashen document without a transaction reference but with a
\* transaction amount yields success=false with an error message that mentions
\* the missing reference, and no receipt field.
C17_MissingReferenceNamed ==
    (Handed /\ inst = "Dashen" /\ "pdf" \in DOMAIN doc /\ doc.pdf
       /\ ~Truthy(doc.transactionReference) /\ StatesAmount(doc.transactionAmount)) =>
        /\ IsFailure(result.val)
        /\ ~CarriesData(result.val)
        /\ CarriesError(result.val) /\ result.val.error \in MentionsReference

\* the position of the first strategy that yields a non-empty value, or the
\* number of strategies when none does
FirstHitAt(outcomes) ==
    LET hits == {n \in 1..Len(outcomes) : Truthy(outcomes[n])}
    IN  IF hits = {} THEN Len(outcomes)
        ELSE CHOOSE n \in hits : \A m \in hits : n <= m

\* the value of the first strategy that yields a non-empty value
FirstHit(outcomes) ==
    IF Len(outcomes) = 0 THEN NoText ELSE outcomes[FirstHitAt(outcomes)]

\* the outcome lists that differ from outcomes in one strategy declared after
\* the first one that yields a value
LaterChanged(outcomes) ==
    {[outcomes EXCEPT ![n] = v] :
        n \in (FirstHitAt(outcomes) + 1)..Len(outcomes), v \in {NoText, Ref1}}

\* the fields of a scraped page that have strategies of their own
LabelledFields ==
    {"payerName", "transactionStatus", "receiptNo", "settledAmount",
     "creditedPartyName", "creditedPartyAccountNo"}

\* the field of the returned receipt is the value of the first strategy of
\* the page that yields one, whatever the later strategies yield
FirstStrategyWins(k) ==
    /\ result.val[k] = FirstHit(doc[k])
    /\ \A later \in LaterChanged(doc[k]) :
           scrapeTelebirrReceipt([doc EXCEPT ![k] = later])[k] = result.val[k]

\* a receipt was scraped from markup and handed back
ScrapedReceipt ==
    /\ Handed /\ inst = "Telebirr" /\ ~IsNull(result.val)
    /\ "kind" \in DOMAIN doc /\ doc.kind = "html"

\* C18 as stated: every field of a scraped Telebirr receipt holds the value of
\* the first of its strategies, in declared order, that yields a non-empty
\* value, and no later strategy changes it.
C18_FirstStrategyWinsEveryField ==
    ScrapedReceipt => \A k \in LabelledFields : FirstStrategyWins(k)

\* C18 amended: the same for every field but the credited party's name and
\* account number; these two hold the value of their own first strategy only
\* when the page has no bank account number of the form "digits name", and
\* otherwise the two parts of the bank account number (itself the value of its
\* first strategy), the credited party name becoming the bank name.
C18_FirstStrategyWinsPerLabel ==
    ScrapedReceipt =>
        LET bankAccountNumberRaw == FirstHit(doc.bankAccountNumber)
            match == bankAccountRegex(bankAccountNumberRaw)
        IN  /\ \A k \in LabelledFields \ {"creditedPartyName", "creditedPartyAccountNo"} :
                   FirstStrategyWins(k)
            /\ ~match.matched =>
                   /\ FirstStrategyWins("creditedPartyName")
                   /\ FirstStrategyWins("creditedPartyAccountNo")
            /\ match.matched =>
                   /\ result.val.creditedPartyName = match.name
                   /\ result.val.creditedPartyAccountNo = match.account
                   /\ \A later \in LaterChanged(doc.bankAccountNumber) :
                          scrapeTelebirrReceipt([doc EXCEPT !.bankAccountNumber = later])
                              = result.val
            /\ result.val.bankName =
                   IF Truthy(bankAccountNumberRaw) THEN FirstHit(doc.creditedPartyName)
                   ELSE NoText

\* two strategies of the payer name yield different values and the first won
C18_Witness ==
    /\ ScrapedReceipt
    /\ doc.payerName = <<JohnDoe, AbeBe>>
    /\ result.val.payerName = JohnDoe
    /\ doc.receiptNo = <<NoText, Cgu1>> /\ result.val.receiptNo = Cgu1

\* the running call waits for something the environment delivers
AwaitsEnvironment ==
    \/ inflight # NoRequest /\ response = NoResponse
    \/ pc \in {"cbe_launching", "cbe_newPage", "cbe_wait", "cbe_closing",
                "cbe_catch_closing"}

WaitEndedWithoutPdf ==
    \E n \in 1..Len(trace) :
        /\ trace[n].op = "timer"
        /\ \A m \in 1..(n - 1) : ~(trace[m].op = "event" /\ trace[m].event.pdf)

\* C20: if no response with a PDF content type has been observed when the
\* rendered-page wait ends, verifyCBE returns success=false with the error
\* 'No PDF detected via Puppeteer.' and issues no document request.
C20_NoPdfMeansNoDocumentRequest ==
    (inst = "CBE" /\ WaitEndedWithoutPdf) =>
        /\ RequestsTo("document") = {}
        /\ Ended => result = Returned(Failure("No PDF detected via Puppeteer."))

\* C21: when SKIP_PRIMARY_VERIFICATION is "true", verifyTelebirr issues no
\* request to the primary endpoint and its first request goes to the fallback
\* proxy; with any other value, or none, the primary is requested first.
C21_SkipPrimaryOnlyWhenTrue ==
    (inst = "Telebirr") =>
        /\ Len(requests) >= 1
        /\ env = "true" => /\ RequestsTo("primary") = {}
                           /\ requests[1].tier = "fallback"
        /\ env # "true" => requests[1].tier = "primary"

\* with the variable set to "true" a call ended on the relay's answer alone
C21_Witness ==
    /\ Ended /\ inst = "Telebirr" /\ env = "true"
    /\ Len(requests) = 1 /\ requests[1].tier = "fallback"
    /\ ~IsNull(result.val)

(***************************************************************************)
(* C28: in any single verifyCBE call browser.close() is invoked at most    *)
(* once: no exit path closes a session on which close was already called.  *)
(* closeCalls counts the invocations at verifyCBE.ts:77 and :91 of the      *)
(* call in progress.                                                       *)
(***************************************************************************)
C28_CloseAtMostOnce ==
    (inst = "CBE") => closeCalls <= 1

-----------------------------------------------------------------------------
(* Vocabulary of the claims about the HTTP layer *)

Finished == handler.stage = "finished"

\* the pipeline was entered for the request being served
Fetched == inst # "none" \/ requests # << >>

\* a string of exactly five digits
FiveDigitString(v) ==
    /\ v.type = "string"
    /\ Len(v.text) = 5
    /\ \A k \in 1..5 : v.text[k] \in Digits

\* exactly 12 digits starting with 251
Is251Phone(v) ==
    /\ Len(v.text) = 12
    /\ v.text[1] = "2" /\ v.text[2] = "5" /\ v.text[3] = "1"
    /\ \A k \in 1..12 : v.text[k] \in Digits

\* the answer is a refusal with this status
Refused(status) ==
    /\ httpRes.sent = 1
    /\ httpRes.status = status
    /\ "success" \in DOMAIN httpRes.body
    /\ httpRes.body.success = FALSE

(***************************************************************************)
(* C22: the Abyssinia route (POST and GET) calls verifyAbyssinia, and so   *)
(* causes an upstream fetch, only when the suffix is a string of exactly   *)
(* five digits; any other suffix is answered with HTTP 400 and             *)
(* success=false without any fetch.                                        *)
(***************************************************************************)
C22_FetchOnlyForFiveDigitSuffix ==
    (httpReq.path = "/verify-abyssinia") =>
        /\ Fetched => FiveDigitString(httpReq.suffix)
        /\ (Finished /\ ~FiveDigitString(httpReq.suffix)) =>
               /\ Refused(400)
               /\ ~Fetched

C22_Witness ==
    /\ Finished
    /\ httpReq.path = "/verify-abyssinia"
    /\ httpReq.method = "GET"
    /\ httpReq.reference = Str(Ft25211Jypqx)
    /\ httpReq.suffix = Str(FiveWithLetter)
    /\ Refused(400)
    /\ ~Fetched

(***************************************************************************)
(* C23 as stated: the CBE-Birr route (POST and GET) calls verifyCBEBirr    *)
(* only when the phone number is exactly 12 digits starting with 251; any  *)
(* other phone number is answered with HTTP 400 and success=false without  *)
(* any upstream fetch.                                                     *)
(***************************************************************************)
C23_InvalidPhoneAnswered400 ==
    (httpReq.path = "/verify-cbebirr") =>
        /\ Fetched => Is251Phone(httpReq.phoneNumber)
        /\ (Finished /\ ~Is251Phone(httpReq.phoneNumber)) =>
               /\ Refused(400)
               /\ ~Fetched

\* the parameter passes the presence check of the handler
Named(method, v) == ~Falsy(v) /\ (method = "GET" => v.type = "string")

(***************************************************************************)
(* C23 amended: the CBE-Birr route calls verifyCBEBirr only when the phone *)
(* number is exactly 12 digits starting with 251; any other phone number   *)
(* is answered with success=false without any upstream fetch: with HTTP    *)
(* 401 when the request names a receipt number and a phone number but      *)
(* carries no API key, with HTTP 400 otherwise.                            *)
(***************************************************************************)
C23_InvalidPhoneRefusedBeforeFetch ==
    (httpReq.path = "/verify-cbebirr") =>
        /\ Fetched => Is251Phone(httpReq.phoneNumber)
        /\ (Finished /\ ~Is251Phone(httpReq.phoneNumber)) =>
               /\ ~Fetched
               /\ IF /\ Named(httpReq.method, httpReq.receiptNumber)
                     /\ Named(httpReq.method, httpReq.phoneNumber)
                     /\ Falsy(httpReq.apiKey)
                  THEN Refused(401)
                  ELSE Refused(400)

C23_Witness ==
    /\ Finished
    /\ httpReq.path = "/verify-cbebirr"
    /\ httpReq.method = "POST"
    /\ httpReq.receiptNumber = Str(Cgu9Reihhb)
    /\ httpReq.phoneNumber = Str(PhoneLocal)
    /\ httpReq.apiKey = Str(KeyActive)
    /\ Refused(400)
    /\ ~Fetched

\* the request carries a valid, active API key
CarriesValidKey ==
    /\ httpReq.apiKey.type = "string"
    /\ \E k \in StoredKeys : k.key = httpReq.apiKey.text /\ k.isActive

(***************************************************************************)
(* C24: every request to a verification endpoint that does not carry a     *)
(* valid, active API key is rejected with 401 or 403 before any            *)
(* verification is performed; only / and /health are served without a key. *)
(***************************************************************************)
C24_NoVerificationWithoutValidKey ==
    (/\ httpReq.path \in {"/verify-abyssinia", "/verify-cbebirr"}
     /\ ~CarriesValidKey) =>
        /\ ~Fetched
        /\ Finished => httpRes.status \in {401, 403}

(***************************************************************************)
(* C26: an admin route handler (/admin/api-keys, /admin/stats) runs only   *)
(* for a request whose x-admin-key header or adminKey query value equals   *)
(* the configured admin secret; every other request is answered 403 and    *)
(* the handler is not run.                                                 *)
(***************************************************************************)
C26_AdminOnlyWithSecret ==
    (httpReq.path \in {"/admin/api-keys", "/admin/stats"} /\ httpReq.app = "listening") =>
        LET presented == {httpReq.adminHeader, httpReq.adminQuery}
        IN  /\ handler.adminRuns > 0 => ADMIN_SECRET(httpReq) \in presented
            /\ (Finished /\ ADMIN_SECRET(httpReq) \notin presented) =>
                   /\ Refused(403)
                   /\ handler.adminRuns = 0

C26_Witness ==
    /\ Finished
    /\ httpReq.path = "/admin/stats"
    /\ httpReq.app = "listening"
    /\ httpReq.adminSecret = Str(Secret)
    /\ httpReq.adminHeader = Undefined
    /\ httpReq.adminQuery = Str(Secret)
    /\ handler.adminRuns = 1
    /\ httpRes.status = 200

(***************************************************************************)
(* C25: when no vision-model API key is configured, the image handler      *)
(* answers an upload with the degraded "enter the reference manually"      *)
(* response and invokes neither the OCR client nor any verification        *)
(* function; the missing capability never produces an error response.      *)
(***************************************************************************)
C25_NoKeyMeansManualEntry ==
    (/\ httpReq.path = "/verify-image"
     /\ httpReq.file
     /\ ~httpReq.mistralKey) =>
        /\ handler.ocrCalls = 0
        /\ ~Fetched
        /\ Finished =>
               /\ httpRes.status = 200
               /\ "nextSteps" \in DOMAIN httpRes.body

\* the answer says verified: true
AnsweredVerified ==
    /\ Finished
    /\ "verified" \in DOMAIN httpRes.body
    /\ httpRes.body.verified

(***************************************************************************)
(* C27: in autoVerify mode the image handler answers with verified:true    *)
(* only if the invoked verification actually succeeded (verifyTelebirr     *)
(* returned a non-null receipt, or verifyCBE returned success=true); a     *)
(* failed verification is never reported as verified.                      *)
(***************************************************************************)
C27_VerifiedOnlyOnSuccess ==
    (httpReq.path = "/verify-image" /\ AnsweredVerified) =>
        /\ httpReq.autoVerify
        /\ result.kind = "returned"
        /\ inst = "Telebirr" => ~IsNull(result.val)
        /\ inst = "CBE" => CarriesSuccess(result.val)

(***************************************************************************)
(* C29: for every image request that carried an uploaded file, the         *)
(* temporary file is deleted exactly once before the handler finishes, on  *)
(* every path (OCR disabled, OCR error, unknown receipt type, verification *)
(* success or failure), and exactly one HTTP response is sent for the      *)
(* request.                                                                *)
(***************************************************************************)
C29_FileDeletedOnceAnsweredOnce ==
    (httpReq.path = "/verify-image" /\ httpReq.file) =>
        /\ handler.unlinks <= 1
        /\ httpRes.sent <= 1
        /\ Finished => (handler.unlinks = 1 /\ httpRes.sent = 1)

C29_Witness ==
    /\ Finished
    /\ httpReq.path = "/verify-image"
    /\ httpReq.file
    /\ inst = "CBE"
    /\ result.kind = "thrown"
    /\ httpRes.status = 500
    /\ httpRes.sent = 1
    /\ handler.unlinks = 1

====
